---- MODULE Spec2Model ----
(***************************************************************************)
(* A model of Autonomix (PlebOne/autonomix): the release-asset classifier  *)
(* (core/models.rs), the asset resolver (core/github_api.rs), the store    *)
(* (core/database.rs) and the install / uninstall workflows of the GTK     *)
(* main window (ui/main_window.rs).                                        *)
(*                                                                         *)
(* File names are sequences of one-character strings, so that the          *)
(* lower-casing, suffix and substring tests of the classifier are computed *)
(* as the code computes them.  An Option<T> is a sequence of length 0      *)
(* (None) or 1 (Some(x)).                                                  *)
(***************************************************************************)
EXTENDS Integers, Sequences, FiniteSets, Bags, TLC

VARIABLES
    host,       \* std::env::consts::ARCH of the build
    cname,      \* classifier: the asset name being classified
    cout,       \* classifier: None, or Some of the three predicates' results
    rassets,    \* resolver: the asset list (names, in input order)
    rpref,      \* resolver: the preferred format, Option<InstallType>
    rout,       \* resolver: None, or Some(result) where result is Option<index>
    running,    \* the process is up (MainWindow::new has run)
    starts,     \* how many times the process has been started
    apps,       \* the store's apps table: rowid -> row
    next_rowid, \* the next AUTOINCREMENT id of the apps table
    app_rows,   \* MainWindow.app_rows: the rows shown, [app_id, sensitive]
    chan,       \* the mpsc channel of AppMessage into the UI loop
    spawned,    \* bag of futures spawned on the main context, not yet polled
    installs,   \* bag of install futures (do_install), each at its await point
    fetches,    \* bag of tokio tasks fetching a latest release
    sleeping,   \* number of refresh futures in their 2 s sleep
    last_ok,    \* history: app_id -> format of its latest successful install
    self_seed,  \* history: the format register_self last wrote, if any
    files,      \* installer: the files the dispatcher manages on the machine
    iop,        \* installer: the latest dispatcher call, None before the first
    icalls,     \* installer: the external tools that call ran, with their outcome
    ires,       \* installer: what that call returned
    nops,       \* installer: number of dispatcher calls made
    vinstalled, \* versions: installed_version of the app examined
    vlatest,    \* versions: latest_version of the app examined
    vout,       \* versions: None, or Some of what the comparator answered
    tstr,       \* format tags: the string given to InstallType::from_str
    tparsed,    \* format tags: None, or Some of what from_str returned
    ui_db,      \* main context: the store the window's handlers read and write
    workflows,  \* main context: bag of do_install calls, each at its await point
    bulks,      \* main context: the update_all_apps futures, in spawn order
    ui_thread,  \* main context: the blocking call the UI thread is inside, or None
    inbox,      \* main context: the messages sent and not yet handled
    clicks      \* main context: how often each button has been clicked

pure_vars == <<host, cname, cout, rassets, rpref, rout>>
app_vars == <<running, starts, apps, next_rowid, app_rows, chan, spawned, installs,
              fetches, sleeping, last_ok, self_seed>>
inst_vars == <<files, iop, icalls, ires, nops>>
ver_vars == <<vinstalled, vlatest, vout, tstr, tparsed>>
ui_vars == <<ui_db, workflows, bulks, ui_thread, inbox, clicks>>
lib_vars == <<pure_vars, inst_vars, ver_vars, ui_vars>>
vars == <<host, cname, cout, rassets, rpref, rout, running, starts, apps, next_rowid,
          app_rows, chan, spawned, installs, fetches, sleeping, last_ok, self_seed,
          files, iop, icalls, ires, nops, vinstalled, vlatest, vout, tstr, tparsed,
          ui_db, workflows, bulks, ui_thread, inbox, clicks>>

None == <<>>
Some(x) == <<x>>

(***************************************************************************)
(* Strings: the parts of Rust's str API the classifier uses.               *)
(***************************************************************************)
UpperCase == <<"A","B","C","D","E","F","G","H","I","J","K","L","M",
               "N","O","P","Q","R","S","T","U","V","W","X","Y","Z">>
LowerCase == <<"a","b","c","d","e","f","g","h","i","j","k","l","m",
               "n","o","p","q","r","s","t","u","v","w","x","y","z">>

OtherChars == {"0","1","2","3","4","5","6","7","8","9",".","-","_"}

\* char::to_lowercase on the ASCII characters of the names modelled.
char_to_lowercase ==
    [c \in {UpperCase[i] : i \in 1..26} \cup {LowerCase[i] : i \in 1..26} \cup OtherChars |->
        IF \E i \in 1..26 : UpperCase[i] = c
        THEN LowerCase[CHOOSE i \in 1..26 : UpperCase[i] = c]
        ELSE c]

to_lowercase(s) == [i \in 1..Len(s) |-> char_to_lowercase[s[i]]]

ends_with(s, p) ==
    /\ Len(p) <= Len(s)
    /\ SubSeq(s, Len(s) - Len(p) + 1, Len(s)) = p

contains(s, p) ==
    \E i \in 1..(Len(s) - Len(p) + 1) : SubSeq(s, i, i + Len(p) - 1) = p

\* The byte order of the characters, as str's Ord (and SQLite's BINARY
\* collation) compares them.
Ascii == <<"-",".","0","1","2","3","4","5","6","7","8","9",
           "A","B","C","D","E","F","G","H","I","J","K","L","M",
           "N","O","P","Q","R","S","T","U","V","W","X","Y","Z","_",
           "a","b","c","d","e","f","g","h","i","j","k","l","m",
           "n","o","p","q","r","s","t","u","v","w","x","y","z">>

byte_rank == [c \in {Ascii[i] : i \in 1..Len(Ascii)} |->
                CHOOSE i \in 1..Len(Ascii) : Ascii[i] = c]

RECURSIVE str_less(_, _)
str_less(a, b) ==
    IF b = <<>> THEN FALSE
    ELSE IF a = <<>> THEN TRUE
    ELSE IF a[1] = b[1] THEN str_less(Tail(a), Tail(b))
    ELSE byte_rank[a[1]] < byte_rank[b[1]]

(***************************************************************************)
(* InstallType (core/models.rs).                                           *)
(***************************************************************************)
InstallType == {"Deb", "Rpm", "AppImage", "Flatpak", "Snap", "Binary", "Source"}

(***************************************************************************)
(* ReleaseAsset::detect_install_type: ordered suffix match on the          *)
(* lower-cased name.                                                       *)
(***************************************************************************)
detect_install_type_case_sensitive(name) ==
    LET name_lower == name IN
    IF ends_with(name_lower, <<".","d","e","b">>) THEN Some("Deb")
    ELSE IF ends_with(name_lower, <<".","r","p","m">>) THEN Some("Rpm")
    ELSE IF ends_with(name_lower, <<".","a","p","p","i","m","a","g","e">>)
         THEN Some("AppImage")
    ELSE IF \/ ends_with(name_lower, <<".","f","l","a","t","p","a","k">>)
            \/ ends_with(name_lower, <<".","f","l","a","t","p","a","k","r","e","f">>)
         THEN Some("Flatpak")
    ELSE IF ends_with(name_lower, <<".","s","n","a","p">>) THEN Some("Snap")
    ELSE IF \/ ends_with(name_lower, <<".","t","a","r",".","g","z">>)
            \/ ends_with(name_lower, <<".","t","a","r",".","x","z">>)
            \/ ends_with(name_lower, <<".","t","a","r",".","b","z","2">>)
         THEN Some("Source")
    ELSE IF \/ ~contains(name_lower, <<".">>)
            \/ ends_with(name_lower, <<".","b","i","n">>)
         THEN Some("Binary")
    ELSE None

detect_install_type(name) ==
    LET name_lower == to_lowercase(name) IN
    IF ends_with(name_lower, <<".","d","e","b">>) THEN Some("Deb")
    ELSE IF ends_with(name_lower, <<".","r","p","m">>) THEN Some("Rpm")
    ELSE IF ends_with(name_lower, <<".","a","p","p","i","m","a","g","e">>)
         THEN Some("AppImage")
    ELSE IF \/ ends_with(name_lower, <<".","f","l","a","t","p","a","k">>)
            \/ ends_with(name_lower, <<".","f","l","a","t","p","a","k","r","e","f">>)
         THEN Some("Flatpak")
    ELSE IF ends_with(name_lower, <<".","s","n","a","p">>) THEN Some("Snap")
    ELSE IF \/ ends_with(name_lower, <<".","t","a","r",".","g","z">>)
            \/ ends_with(name_lower, <<".","t","a","r",".","x","z">>)
            \/ ends_with(name_lower, <<".","t","a","r",".","b","z","2">>)
         THEN Some("Source")
    ELSE IF \/ ~contains(name_lower, <<".">>)
            \/ ends_with(name_lower, <<".","b","i","n">>)
         THEN Some("Binary")
    ELSE None

(***************************************************************************)
(* ReleaseAsset::matches_architecture.  arch is std::env::consts::ARCH.    *)
(***************************************************************************)
arch_patterns(arch) ==
    CASE arch = <<"x","8","6","_","6","4">> ->
            << <<"x","8","6","_","6","4">>, <<"a","m","d","6","4">>,
               <<"x","6","4">>, <<"l","i","n","u","x","6","4">> >>
      [] arch = <<"a","a","r","c","h","6","4">> ->
            << <<"a","a","r","c","h","6","4">>, <<"a","r","m","6","4">> >>
      [] arch = <<"x","8","6">> ->
            << <<"i","3","8","6">>, <<"i","6","8","6">>, <<"x","8","6">>,
               <<"l","i","n","u","x","3","2">> >>
      [] OTHER -> << arch >>

has_arch_indicator(name_lower) ==
    \/ contains(name_lower, <<"x","8","6">>)
    \/ contains(name_lower, <<"a","m","d","6","4">>)
    \/ contains(name_lower, <<"a","r","m">>)
    \/ contains(name_lower, <<"a","a","r","c","h">>)
    \/ contains(name_lower, <<"i","3","8","6">>)
    \/ contains(name_lower, <<"i","6","8","6">>)

matches_architecture_no_universal(name, arch) ==
    LET name_lower == to_lowercase(name)
        pats == arch_patterns(arch)
    IN  \E k \in 1..Len(pats) : contains(name_lower, pats[k])

matches_architecture(name, arch) ==
    LET name_lower == to_lowercase(name)
        pats == arch_patterns(arch)
    IN  IF ~has_arch_indicator(name_lower)
        THEN TRUE
        ELSE \E k \in 1..Len(pats) : contains(name_lower, pats[k])

(***************************************************************************)
(* ReleaseAsset::is_linux.                                                 *)
(***************************************************************************)
is_linux_suffix_first(name) ==
    LET name_lower == to_lowercase(name) IN
    IF \/ ends_with(name_lower, <<".","d","e","b">>)
       \/ ends_with(name_lower, <<".","r","p","m">>)
       \/ ends_with(name_lower, <<".","a","p","p","i","m","a","g","e">>)
       \/ ends_with(name_lower, <<".","s","n","a","p">>)
       \/ ends_with(name_lower, <<".","f","l","a","t","p","a","k">>)
    THEN TRUE
    ELSE IF \/ contains(name_lower, <<"w","i","n","d","o","w","s">>)
            \/ contains(name_lower, <<".","e","x","e">>)
            \/ contains(name_lower, <<".","m","s","i">>)
            \/ contains(name_lower, <<"m","a","c","o","s">>)
            \/ contains(name_lower, <<"d","a","r","w","i","n">>)
            \/ contains(name_lower, <<".","d","m","g">>)
    THEN FALSE
    ELSE IF contains(name_lower, <<"l","i","n","u","x">>)
    THEN TRUE
    ELSE IF \/ ends_with(name_lower, <<".","t","a","r",".","g","z">>)
            \/ ends_with(name_lower, <<".","t","a","r",".","x","z">>)
            \/ ends_with(name_lower, <<".","t","a","r",".","b","z","2">>)
    THEN TRUE
    ELSE FALSE

is_linux(name) ==
    LET name_lower == to_lowercase(name) IN
    IF \/ contains(name_lower, <<"w","i","n","d","o","w","s">>)
       \/ contains(name_lower, <<".","e","x","e">>)
       \/ contains(name_lower, <<".","m","s","i">>)
       \/ contains(name_lower, <<"m","a","c","o","s">>)
       \/ contains(name_lower, <<"d","a","r","w","i","n">>)
       \/ contains(name_lower, <<".","d","m","g">>)
    THEN FALSE
    ELSE IF \/ ends_with(name_lower, <<".","d","e","b">>)
            \/ ends_with(name_lower, <<".","r","p","m">>)
            \/ ends_with(name_lower, <<".","a","p","p","i","m","a","g","e">>)
            \/ ends_with(name_lower, <<".","s","n","a","p">>)
            \/ ends_with(name_lower, <<".","f","l","a","t","p","a","k">>)
    THEN TRUE
    ELSE IF contains(name_lower, <<"l","i","n","u","x">>)
    THEN TRUE
    ELSE IF \/ ends_with(name_lower, <<".","t","a","r",".","g","z">>)
            \/ ends_with(name_lower, <<".","t","a","r",".","x","z">>)
            \/ ends_with(name_lower, <<".","t","a","r",".","b","z","2">>)
    THEN TRUE
    ELSE FALSE

(***************************************************************************)
(* Host architectures and the asset names that releases carry in the model *)
(* of the resolver and of the install workflow.                            *)
(***************************************************************************)
HostX8664 == <<"x","8","6","_","6","4">>
HostAarch64 == <<"a","a","r","c","h","6","4">>
HostX86 == <<"x","8","6">>
HostOther == <<"r","i","s","c","v","6","4">>
Hosts == {HostX8664, HostAarch64, HostX86, HostOther}

ResolverHosts == {HostX8664, HostAarch64}

ResolverNames ==
    { <<"a","p","p",".","r","p","m">>,
      <<"a","p","p",".","d","e","b">>,
      <<"a","p","p",".","A","p","p","I","m","a","g","e">>,
      <<"a","p","p",".","f","l","a","t","p","a","k">>,
      <<"a","p","p",".","s","n","a","p">>,
      <<"a","p","p","-","l","i","n","u","x">>,
      <<"a","p","p",".","t","a","r",".","g","z">>,
      <<"a","p","p","-","l","i","n","u","x",".","z","i","p">>,
      <<"a","p","p","-","w","i","n","d","o","w","s","-","x","6","4",".","z","i","p">>,
      <<"a","p","p","_","a","r","m","6","4",".","d","e","b">>,
      <<"a","p","p","-","d","a","r","w","i","n",".","t","a","r",".","g","z">>,
      <<"a","p","p">> }

(***************************************************************************)
(* The three predicates of ReleaseAsset, tabulated over ResolverNames and  *)
(* ResolverHosts (each table is evaluated once).                           *)
(***************************************************************************)
asset_detect_install_type == [n \in ResolverNames |-> detect_install_type(n)]

asset_is_linux == [n \in ResolverNames |-> is_linux(n)]

asset_matches_architecture ==
    [n \in ResolverNames |-> [h \in ResolverHosts |-> matches_architecture(n, h)]]

(***************************************************************************)
(* GitHubApi::find_best_asset.  assets is the list of asset names in input *)
(* order; the result is Option<index into assets> (the code returns a      *)
(* reference to an element of the slice).                                  *)
(***************************************************************************)
\* assets.iter().filter(|a| a.is_linux() && a.matches_architecture()).collect()
compatible_arch_only(assets, arch) ==
    SelectSeq([i \in 1..Len(assets) |-> i],
              LAMBDA i : asset_matches_architecture[assets[i]][arch])

compatible(assets, arch) ==
    SelectSeq([i \in 1..Len(assets) |-> i],
              LAMBDA i : /\ asset_is_linux[assets[i]]
                         /\ asset_matches_architecture[assets[i]][arch])

\* compat.iter().find(|a| a.detect_install_type() == Some(t))
find_type(assets, compat, t) ==
    LET hits == SelectSeq(compat, LAMBDA i : asset_detect_install_type[assets[i]] = Some(t))
    IN  IF hits = <<>> THEN None ELSE Some(Head(hits))

priority_without_source == <<"Deb", "Rpm", "AppImage", "Flatpak", "Snap", "Binary">>

priority_appimage_first ==
    <<"AppImage", "Deb", "Rpm", "Flatpak", "Snap", "Binary", "Source">>

priority == <<"Deb", "Rpm", "AppImage", "Flatpak", "Snap", "Binary", "Source">>

\* for install_type in priority { if let Some(asset) = find .. { return } }
priority_walk(assets, compat) ==
    LET found == SelectSeq(priority, LAMBDA t : find_type(assets, compat, t) # None)
    IN  IF found = <<>> THEN None ELSE find_type(assets, compat, Head(found))

\* compatible.first().copied()
first_compatible_none(compat) == None

first_compatible(compat) ==
    IF compat = <<>> THEN None ELSE Some(Head(compat))

preferred_hit_ignored(assets, compat, preferred_type) == None

\* if let Some(pref) = preferred_type { compatible.iter().find(..) }
preferred_hit(assets, compat, preferred_type) ==
    IF preferred_type = None
    THEN None
    ELSE find_type(assets, compat, preferred_type[1])

find_best_asset(assets, preferred_type, arch) ==
    LET compat == compatible(assets, arch) IN
    IF compat = <<>> THEN None
    ELSE IF preferred_hit(assets, compat, preferred_type) # None
         THEN preferred_hit(assets, compat, preferred_type)
    ELSE IF priority_walk(assets, compat) # None
         THEN priority_walk(assets, compat)
    ELSE first_compatible(compat)

(***************************************************************************)
(* InstallType::as_str and InstallType::from_str: the tag the store keeps. *)
(***************************************************************************)
as_str(t) ==
    CASE t = "Deb" -> <<"d","e","b">>
      [] t = "Rpm" -> <<"r","p","m">>
      [] t = "AppImage" -> <<"a","p","p","i","m","a","g","e">>
      [] t = "Flatpak" -> <<"f","l","a","t","p","a","k">>
      [] t = "Snap" -> <<"s","n","a","p">>
      [] t = "Binary" -> <<"b","i","n","a","r","y">>
      [] t = "Source" -> <<"s","o","u","r","c","e">>

from_str_without_source(str) ==
    LET l == to_lowercase(str) IN
    CASE l = <<"d","e","b">> -> Some("Deb")
      [] l = <<"r","p","m">> -> Some("Rpm")
      [] l = <<"a","p","p","i","m","a","g","e">> -> Some("AppImage")
      [] l = <<"f","l","a","t","p","a","k">> -> Some("Flatpak")
      [] l = <<"s","n","a","p">> -> Some("Snap")
      [] l = <<"b","i","n","a","r","y">> -> Some("Binary")
      [] OTHER -> None

from_str(str) ==
    LET l == to_lowercase(str) IN
    CASE l = <<"d","e","b">> -> Some("Deb")
      [] l = <<"r","p","m">> -> Some("Rpm")
      [] l = <<"a","p","p","i","m","a","g","e">> -> Some("AppImage")
      [] l = <<"f","l","a","t","p","a","k">> -> Some("Flatpak")
      [] l = <<"s","n","a","p">> -> Some("Snap")
      [] l = <<"b","i","n","a","r","y">> -> Some("Binary")
      [] l = <<"s","o","u","r","c","e">> -> Some("Source")
      [] OTHER -> None

(***************************************************************************)
(* The store (core/database.rs).  db is the apps table, rowid -> row; the  *)
(* text columns installed_version, latest_version and install_type are     *)
(* NULL (None) or Some(text).  UNIQUE(repo_owner, repo_name).              *)
(***************************************************************************)
SelfRepo == [owner |-> <<"P","l","e","b","O","n","e">>,
             name  |-> <<"a","u","t","o","n","o","m","i","x">>,
             display_name |-> <<"A","u","t","o","n","o","m","i","x">>]

\* env!("CARGO_PKG_VERSION")
CARGO_PKG_VERSION == <<"0",".","1",".","0">>

is_tracked(db, repo_owner, repo_name) ==
    \E id \in DOMAIN db : db[id].repo_owner = repo_owner /\ db[id].repo_name = repo_name

add_app_with_type(db, rowid, repo_owner, repo_name, display_name) ==
    [id \in DOMAIN db \cup {rowid} |->
        IF id = rowid
        THEN [repo_owner |-> repo_owner, repo_name |-> repo_name,
              display_name |-> display_name,
              installed_version |-> None, latest_version |-> None,
              install_type |-> Some(as_str("Deb"))]
        ELSE db[id]]

add_app_unconstrained(db, rowid, repo_owner, repo_name, display_name) ==
    [id \in DOMAIN db \cup {rowid} |->
        IF id = rowid
        THEN [repo_owner |-> repo_owner, repo_name |-> repo_name,
              display_name |-> display_name,
              installed_version |-> None, latest_version |-> None,
              install_type |-> None]
        ELSE db[id]]

\* INSERT INTO apps (repo_owner, repo_name, ..); the new row has id rowid.
\* UNIQUE(repo_owner, repo_name) makes the INSERT of a tracked pair fail:
\* the table stays as it is.
add_app(db, rowid, repo_owner, repo_name, display_name) ==
    IF is_tracked(db, repo_owner, repo_name)
    THEN db
    ELSE [id \in DOMAIN db \cup {rowid} |->
            IF id = rowid
            THEN [repo_owner |-> repo_owner, repo_name |-> repo_name,
                  display_name |-> display_name,
                  installed_version |-> None, latest_version |-> None,
                  install_type |-> None]
            ELSE db[id]]

row_to_app_without_type(db, id) ==
    [id |-> id, repo_owner |-> db[id].repo_owner, repo_name |-> db[id].repo_name,
     display_name |-> db[id].display_name,
     installed_version |-> db[id].installed_version,
     latest_version |-> db[id].latest_version,
     install_type |-> None]

\* A row read back as a TrackedApp: install_type parsed by from_str.
row_to_app(db, id) ==
    [id |-> id, repo_owner |-> db[id].repo_owner, repo_name |-> db[id].repo_name,
     display_name |-> db[id].display_name,
     installed_version |-> db[id].installed_version,
     latest_version |-> db[id].latest_version,
     install_type |-> IF db[id].install_type = None THEN None
                      ELSE from_str(db[id].install_type[1])]

get_app(db, id) == IF id \in DOMAIN db THEN Some(row_to_app(db, id)) ELSE None

get_app_by_repo(db, repo_owner, repo_name) ==
    IF is_tracked(db, repo_owner, repo_name)
    THEN Some(row_to_app(db, CHOOSE id \in DOMAIN db :
                    db[id].repo_owner = repo_owner /\ db[id].repo_name = repo_name))
    ELSE None

\* SELECT .. ORDER BY display_name: the rows by display name, equal names by
\* rowid.
RECURSIVE order_by_display_name(_, _)
order_by_display_name(db, ids) ==
    IF ids = {} THEN <<>>
    ELSE LET first == CHOOSE i \in ids : \A j \in ids \ {i} :
                          \/ str_less(db[i].display_name, db[j].display_name)
                          \/ (db[i].display_name = db[j].display_name /\ i < j)
         IN  <<row_to_app(db, first)>> \o order_by_display_name(db, ids \ {first})

get_all_apps(db) == order_by_display_name(db, DOMAIN db)

update_latest_version(db, id, version) ==
    [i \in DOMAIN db |-> IF i = id THEN [db[i] EXCEPT !.latest_version = Some(version)]
                         ELSE db[i]]

update_installed_version_only(db, id, version, install_type) ==
    [i \in DOMAIN db |->
        IF i = id THEN [db[i] EXCEPT !.installed_version = Some(version)] ELSE db[i]]

update_installed(db, id, version, install_type) ==
    [i \in DOMAIN db |->
        IF i = id
        THEN [db[i] EXCEPT !.installed_version = Some(version),
                           !.install_type = Some(as_str(install_type))]
        ELSE db[i]]

\* UPDATE apps SET installed_version = ?1 WHERE id = ?2 (register_self)
set_installed_version(db, id, version) ==
    [i \in DOMAIN db |-> IF i = id THEN [db[i] EXCEPT !.installed_version = Some(version)]
                         ELSE db[i]]

clear_installed(db, id) ==
    [i \in DOMAIN db |->
        IF i = id
        THEN [db[i] EXCEPT !.installed_version = None, !.install_type = None]
        ELSE db[i]]

delete_app(db, id) == [i \in DOMAIN db \ {id} |-> db[i]]

update_install_type(db, id, install_type) ==
    [i \in DOMAIN db |->
        IF i = id THEN [db[i] EXCEPT !.install_type = Some(as_str(install_type))]
        ELSE db[i]]

(***************************************************************************)
(* detect_self_install_type (core/installer.rs): the probes in their fixed *)
(* order; env says which probes succeed on the host.                       *)
(***************************************************************************)
detect_self_install_type(env) ==
    IF env.dpkg THEN Some("Deb")
    ELSE IF env.rpm THEN Some("Rpm")
    ELSE IF env.flatpak THEN Some("Flatpak")
    ELSE IF env.snap THEN Some("Snap")
    ELSE IF env.appimage THEN Some("AppImage")
    ELSE IF env.local_bin THEN Some("Binary")
    ELSE None

(***************************************************************************)
(* Database::register_self.  Returns the table after it.                   *)
(***************************************************************************)
register_self(db, rowid, install_type) ==
    IF ~is_tracked(db, SelfRepo.owner, SelfRepo.name)
    THEN LET db1 == add_app(db, rowid, SelfRepo.owner, SelfRepo.name,
                            SelfRepo.display_name)
         IN  IF install_type # None
             THEN update_installed(db1, rowid, CARGO_PKG_VERSION, install_type[1])
             ELSE set_installed_version(db1, rowid, CARGO_PKG_VERSION)
    ELSE LET app == get_app_by_repo(db, SelfRepo.owner, SelfRepo.name)[1]
             db1 == set_installed_version(db, app.id, CARGO_PKG_VERSION)
         IN  IF /\ install_type # None
                /\ (app.install_type = None \/ app.install_type # install_type)
             THEN update_install_type(db1, app.id, install_type[1])
             ELSE db1

(***************************************************************************)
(* Installer::install and Installer::uninstall, by their result only: the  *)
(* Source format is refused, every other format runs a tool or copies a    *)
(* file and may succeed or fail.                                           *)
(***************************************************************************)
installer_install(install_type) ==
    IF install_type = "Source" THEN {"Err"} ELSE {"Ok", "Err"}

installer_uninstall(install_type) ==
    IF install_type = "Source" THEN {"Err"} ELSE {"Ok", "Err"}

(***************************************************************************)
(* The installer before its first call: Installer::new has created its     *)
(* directories, nothing is installed.                                      *)
(***************************************************************************)
InstallerIdle ==
    /\ files = [appimages |-> {}, desktop |-> {}, bin |-> {}]
    /\ iop = None
    /\ icalls = <<>>
    /\ ires = None
    /\ nops = 0

\* No app is being examined by the version comparator, no tag parsed.
VersionIdle ==
    /\ vinstalled = None
    /\ vlatest = None
    /\ vout = None
    /\ tstr = <<>>
    /\ tparsed = None

\* No window: nothing spawned on the main context.
UiIdle ==
    /\ ui_db = <<>>
    /\ workflows = EmptyBag
    /\ bulks = <<>>
    /\ ui_thread = None
    /\ inbox = <<>>
    /\ clicks = [install |-> 0, uninstall |-> 0]

(***************************************************************************)
(* The process before its first start: an empty store, nothing in flight.  *)
(***************************************************************************)
AppStopped ==
    /\ running = FALSE
    /\ starts = 0
    /\ apps = <<>>
    /\ next_rowid = 1
    /\ app_rows = <<>>
    /\ chan = <<>>
    /\ spawned = EmptyBag
    /\ installs = EmptyBag
    /\ fetches = EmptyBag
    /\ sleeping = 0
    /\ last_ok = <<>>
    /\ self_seed = None

(***************************************************************************)
(* Inputs of the classifier: names built as stem ++ os ++ arch ++ suffix.  *)
(***************************************************************************)
Stems == { <<"a","p","p">>, <<"C","h","a","r","m">> }

OsParts ==
    { <<>>,
      <<"-","l","i","n","u","x">>, <<"-","L","i","n","u","x">>,
      <<"-","l","i","n","u","x","6","4">>, <<"-","l","i","n","u","x","3","2">>,
      <<"-","w","i","n","d","o","w","s">>, <<"-","D","a","r","w","i","n">>,
      <<"-","m","a","c","o","s">> }

ArchParts ==
    { <<>>,
      <<"-","x","8","6","_","6","4">>, <<"_","a","m","d","6","4">>,
      <<"-","x","6","4">>, <<"-","a","r","m","6","4">>,
      <<"-","A","A","R","C","H","6","4">>, <<"-","i","3","8","6">>,
      <<"-","i","6","8","6">>, <<"-","x","8","6">>,
      <<"-","a","r","m","v","7">>, <<"-","r","i","s","c","v","6","4">> }

Suffixes ==
    { <<>>,
      <<".","d","e","b">>, <<".","D","E","B">>, <<".","r","p","m">>,
      <<".","A","p","p","I","m","a","g","e">>, <<".","a","p","p","i","m","a","g","e">>,
      <<".","f","l","a","t","p","a","k">>, <<".","f","l","a","t","p","a","k","r","e","f">>,
      <<".","s","n","a","p">>,
      <<".","t","a","r",".","g","z">>, <<".","t","a","r",".","x","z">>,
      <<".","t","a","r",".","b","z","2">>, <<".","t","a","r">>,
      <<".","b","i","n">>, <<".","z","i","p">>,
      <<".","e","x","e">>, <<".","m","s","i">>, <<".","d","m","g">>,
      <<".","e","x","e",".","d","e","b">>, <<".","d","e","b",".","z","i","p">>,
      <<".","d","m","g",".","t","a","r",".","g","z">> }

ClassifierNames ==
    { s \o o \o a \o x : s \in Stems, o \in OsParts, a \in ArchParts, x \in Suffixes }

(***************************************************************************)
(* The classifier applied to one asset name.                               *)
(***************************************************************************)
InitClassify ==
    /\ host \in Hosts
    /\ cname \in ClassifierNames
    /\ cout = None
    /\ rassets = <<>>
    /\ rpref = None
    /\ rout = None
    /\ AppStopped
    /\ InstallerIdle
    /\ VersionIdle
    /\ UiIdle

Classify ==
    /\ cout = None
    /\ cout' = Some([format |-> detect_install_type(cname),
                     linux  |-> is_linux(cname),
                     arch   |-> matches_architecture(cname, host)])
    /\ UNCHANGED <<host, cname, rassets, rpref, rout>>
    /\ UNCHANGED <<app_vars, inst_vars, ver_vars, ui_vars>>

NextClassify == Classify

SpecClassify == InitClassify /\ [][NextClassify]_vars

(***************************************************************************)
(* Inputs of the resolver: asset lists of at most MaxAssets names.         *)
(***************************************************************************)
MaxAssets == 3

AssetLists == UNION { [1..n -> ResolverNames] : n \in 0..MaxAssets }

InitResolve ==
    /\ host \in ResolverHosts
    /\ cname = <<>>
    /\ cout = None
    /\ rassets \in AssetLists
    /\ rpref \in {None} \cup { Some(t) : t \in InstallType }
    /\ rout = None
    /\ AppStopped
    /\ InstallerIdle
    /\ VersionIdle
    /\ UiIdle

Resolve ==
    /\ rout = None
    /\ rout' = Some(find_best_asset(rassets, rpref, host))
    /\ UNCHANGED <<host, cname, cout, rassets, rpref>>
    /\ UNCHANGED <<app_vars, inst_vars, ver_vars, ui_vars>>

NextResolve == Resolve

SpecResolve == InitResolve /\ [][NextResolve]_vars

(***************************************************************************)
(* The application (ui/main_window.rs): the store, the UI loop with its    *)
(* channel, and the futures it spawns.                                     *)
(***************************************************************************)
MaxStarts == 2      \* process starts
MaxRowid == 2       \* rows ever inserted into the apps table
MaxChan == 1        \* messages waiting in the channel
MaxTasks == 2       \* futures and tokio tasks in flight
MaxInstalls == 1    \* install futures among them

\* A repository the user adds in the add dialog, besides Autonomix's own.
OtherRepo == [owner |-> <<"o","c","t","o","c","a","t">>,
              name  |-> <<"h","e","l","l","o">>,
              display_name |-> <<"h","e","l","l","o">>]

Repos == { SelfRepo, OtherRepo }

\* What the probes of detect_self_install_type find on the machine.
NoProbe == [dpkg |-> FALSE, rpm |-> FALSE, flatpak |-> FALSE, snap |-> FALSE,
            appimage |-> FALSE, local_bin |-> FALSE]

Environments == { NoProbe,
                  [NoProbe EXCEPT !.dpkg = TRUE, !.appimage = TRUE],
                  [NoProbe EXCEPT !.appimage = TRUE] }

\* What GitHub answers to get_latest_release: a tag and the asset names.
Tags == { <<"v","1",".","1",".","0">> }

AssetAppImage == <<"a","p","p",".","A","p","p","I","m","a","g","e">>
AssetDeb == <<"a","p","p",".","d","e","b">>
AssetZip == <<"a","p","p","-","l","i","n","u","x",".","z","i","p">>
AssetTarGz == <<"a","p","p",".","t","a","r",".","g","z">>

ReleaseAssets == { <<AssetAppImage>>, <<AssetAppImage, AssetDeb>>,
                   <<AssetZip>>, <<AssetTarGz>> }

Releases == [tag_name : Tags, assets : ReleaseAssets]

\* AppRow::new: the row keeps the app id; the install button is insensitive
\* when no latest version is known.
AppRow_new(app) == [app_id |-> app.id, sensitive |-> app.latest_version # None]

\* AppMessage.  app_id, ok and apps are meaningful for the variants that
\* carry them.  The only reader of the apps a message carries is AppRow::new
\* in the handler, so the message holds each app as the row made from it.
Msg(type, app_id, ok, payload) ==
    [type |-> type, app_id |-> app_id, ok |-> ok,
     apps |-> [i \in 1..Len(payload) |-> AppRow_new(payload[i])]]

InFlight == BagCardinality(spawned) + BagCardinality(installs)
            + BagCardinality(fetches) + sleeping

Init ==
    /\ host = HostX8664
    /\ cname = <<>>
    /\ cout = None
    /\ rassets = <<>>
    /\ rpref = None
    /\ rout = None
    /\ AppStopped
    /\ InstallerIdle
    /\ VersionIdle
    /\ UiIdle

\* main / MainWindow::new: open the store, register_self, install the
\* message handler, load_apps (which spawns its future).
Startup ==
    /\ ~running
    /\ starts < MaxStarts
    /\ \E env \in Environments :
         LET detected == detect_self_install_type(env)
             fresh == ~is_tracked(apps, SelfRepo.owner, SelfRepo.name)
         IN  /\ fresh => next_rowid <= MaxRowid
             /\ apps' = register_self(apps, next_rowid, detected)
             /\ next_rowid' = IF fresh THEN next_rowid + 1 ELSE next_rowid
             /\ self_seed' = IF detected # None THEN detected ELSE self_seed
    /\ running' = TRUE
    /\ starts' = starts + 1
    /\ spawned' = SetToBag({[kind |-> "load", app_id |-> 0]})
    /\ UNCHANGED <<app_rows, chan, installs, fetches, sleeping, last_ok>>
    /\ UNCHANGED lib_vars

\* The window is closed: the process exits, the store file stays.
Quit ==
    /\ running
    /\ running' = FALSE
    /\ app_rows' = <<>>
    /\ chan' = <<>>
    /\ spawned' = EmptyBag
    /\ installs' = EmptyBag
    /\ fetches' = EmptyBag
    /\ sleeping' = 0
    /\ UNCHANGED <<starts, apps, next_rowid, last_ok, self_seed>>
    /\ UNCHANGED lib_vars

\* The future of load_apps: send AppsLoaded, spawn one fetch per app.
LoadApps ==
    /\ running
    /\ \E t \in BagToSet(spawned) :
         /\ t.kind = "load"
         /\ Len(chan) < MaxChan
         /\ LET loaded == get_all_apps(apps)
            IN  /\ InFlight - 1 + Len(loaded) <= MaxTasks
                /\ chan' = Append(chan, Msg("AppsLoaded", 0, TRUE, loaded))
                /\ fetches' = fetches (+) SetToBag({ [app_id |-> loaded[i].id, notify |-> TRUE] :
                                                      i \in 1..Len(loaded) })
         /\ spawned' = spawned (-) SetToBag({t})
    /\ UNCHANGED <<running, starts, apps, next_rowid, app_rows, installs, sleeping,
                   last_ok, self_seed>>
    /\ UNCHANGED lib_vars

\* The add dialog's handler (show_add_dialog / connect_add) for a URL that
\* parses to repo.
AddApp ==
    /\ running
    /\ \E repo \in Repos :
         /\ ~is_tracked(apps, repo.owner, repo.name)
         /\ next_rowid <= MaxRowid
         /\ Len(chan) < MaxChan
         /\ apps' = add_app(apps, next_rowid, repo.owner, repo.name, repo.name)
         /\ next_rowid' = next_rowid + 1
         /\ chan' = Append(chan, Msg("AppAdded", next_rowid, TRUE,
                                     <<[id |-> next_rowid, repo_owner |-> repo.owner,
                                        repo_name |-> repo.name, display_name |-> repo.name,
                                        installed_version |-> None, latest_version |-> None,
                                        install_type |-> None]>>))
    /\ UNCHANGED <<running, starts, app_rows, spawned, installs, fetches, sleeping,
                   last_ok, self_seed>>
    /\ UNCHANGED lib_vars

\* The row's delete button (connect_delete closure).
DeleteClick ==
    /\ running
    /\ \E i \in 1..Len(app_rows) :
         /\ Len(chan) < MaxChan
         /\ apps' = delete_app(apps, app_rows[i].app_id)
         /\ chan' = Append(chan, Msg("AppDeleted", app_rows[i].app_id, TRUE, <<>>))
    /\ UNCHANGED <<running, starts, next_rowid, app_rows, spawned, installs, fetches,
                   sleeping, last_ok, self_seed>>
    /\ UNCHANGED lib_vars

\* rows.iter().position(..) then rows.remove(pos)
remove_row(rows, app_id) ==
    IF \E i \in 1..Len(rows) : rows[i].app_id = app_id
    THEN LET pos == CHOOSE i \in 1..Len(rows) :
                        /\ rows[i].app_id = app_id
                        /\ \A j \in 1..(i - 1) : rows[j].app_id # app_id
         IN  SubSeq(rows, 1, pos - 1) \o SubSeq(rows, pos + 1, Len(rows))
    ELSE rows

\* One turn of the message handler (setup_message_handler).
Recv ==
    /\ running
    /\ chan # <<>>
    /\ LET msg == Head(chan)
           reload == Append(Tail(chan), Msg("AppsLoaded", 0, TRUE, get_all_apps(apps)))
       IN  CASE msg.type = "AppsLoaded" ->
                  /\ app_rows' = msg.apps
                  /\ chan' = Tail(chan)
             [] msg.type = "AppAdded" ->
                  /\ app_rows' = Append(app_rows, msg.apps[1])
                  /\ chan' = Tail(chan)
             [] msg.type = "AppDeleted" ->
                  /\ app_rows' = remove_row(app_rows, msg.app_id)
                  /\ chan' = Tail(chan)
             [] msg.type \in {"RefreshComplete", "AppUpdated"} ->
                  /\ chan' = reload
                  /\ UNCHANGED app_rows
             [] msg.type \in {"InstallComplete", "UninstallComplete"} ->
                  /\ chan' = IF msg.ok THEN reload ELSE Tail(chan)
                  /\ UNCHANGED app_rows
             [] OTHER ->
                  /\ chan' = Tail(chan)
                  /\ UNCHANGED app_rows
    /\ UNCHANGED <<running, starts, apps, next_rowid, spawned, installs, fetches,
                   sleeping, last_ok, self_seed>>
    /\ UNCHANGED lib_vars

\* The row's install button (connect_install closure -> install_app): the
\* future running do_install is spawned.
InstallClick ==
    /\ running
    /\ InFlight < MaxTasks
    /\ BagCardinality(installs) < MaxInstalls
    /\ \E i \in 1..Len(app_rows) :
         /\ app_rows[i].sensitive
         /\ installs' = installs (+) SetToBag({[app_id |-> app_rows[i].app_id, pc |-> "start",
                                               preferred |-> None, release |-> None,
                                               asset |-> None, install_type |-> None,
                                               recorded |-> None, prior |-> None]})
    /\ UNCHANGED <<running, starts, apps, next_rowid, app_rows, chan, spawned, fetches,
                   sleeping, last_ok, self_seed>>
    /\ UNCHANGED lib_vars

InstallComplete_unreported(t, ok) ==
    /\ UNCHANGED chan
    /\ installs' = installs (-) SetToBag({t})

\* install_app's send once do_install has returned.
InstallComplete(t, ok) ==
    /\ Len(chan) < MaxChan
    /\ chan' = Append(chan, Msg("InstallComplete", t.app_id, ok, <<>>))
    /\ installs' = installs (-) SetToBag({t})

\* do_install up to its first await: db.get_app, then get_latest_release is
\* requested.  Of the local app the future keeps app.install_type, which is
\* all it reads of it later.  recorded and prior are history: the stored tag and the format
\* of the app's latest successful install when the workflow read the record.
InstallStart ==
    /\ running
    /\ \E t \in BagToSet(installs) :
         /\ t.pc = "start"
         /\ IF get_app(apps, t.app_id) = None
            THEN InstallComplete(t, FALSE)
            ELSE /\ installs' = (installs (-) SetToBag({t})) (+)
                        SetToBag({[t EXCEPT !.pc = "release",
                                            !.preferred =
                                                get_app(apps, t.app_id)[1].install_type,
                                            !.recorded = apps[t.app_id].install_type,
                                            !.prior = IF t.app_id \in DOMAIN last_ok
                                                      THEN Some(last_ok[t.app_id])
                                                      ELSE None]})
                 /\ UNCHANGED chan
    /\ UNCHANGED <<running, starts, apps, next_rowid, app_rows, spawned, fetches,
                   sleeping, last_ok, self_seed>>
    /\ UNCHANGED lib_vars

\* get_latest_release fails: do_install returns the error.
InstallFetchFailed ==
    /\ running
    /\ \E t \in BagToSet(installs) :
         /\ t.pc = "release"
         /\ InstallComplete(t, FALSE)
    /\ UNCHANGED <<running, starts, apps, next_rowid, app_rows, spawned, fetches,
                   sleeping, last_ok, self_seed>>
    /\ UNCHANGED lib_vars

\* get_latest_release answers: find_best_asset with the record's format as
\* the preference, detect_install_type on the asset, then the download is
\* requested.
InstallFetched ==
    /\ running
    /\ \E t \in BagToSet(installs), release \in Releases :
         /\ t.pc = "release"
         /\ LET best == find_best_asset(release.assets, t.preferred, host)
                asset == release.assets[best[1]]
            IN  IF best = None
                THEN InstallComplete(t, FALSE)
                ELSE IF asset_detect_install_type[asset] = None
                THEN InstallComplete(t, FALSE)
                ELSE /\ installs' = (installs (-) SetToBag({t})) (+)
                            SetToBag({[t EXCEPT !.pc = "download",
                                                !.release = Some(release),
                                                !.asset = Some(asset),
                                                !.install_type =
                                                    asset_detect_install_type[asset]]})
                     /\ UNCHANGED chan
    /\ UNCHANGED <<running, starts, apps, next_rowid, app_rows, spawned, fetches,
                   sleeping, last_ok, self_seed>>
    /\ UNCHANGED lib_vars

\* download_asset fails, or it succeeds and installer.install or the store
\* write update_installed fails: do_install returns the error.
InstallFailed ==
    /\ running
    /\ \E t \in BagToSet(installs) :
         /\ t.pc = "download"
         /\ InstallComplete(t, FALSE)
    /\ UNCHANGED <<running, starts, apps, next_rowid, app_rows, spawned, fetches,
                   sleeping, last_ok, self_seed>>
    /\ UNCHANGED lib_vars

\* download_asset and installer.install succeed: update_installed, Ok.
InstallSucceeded ==
    /\ running
    /\ \E t \in BagToSet(installs) :
         /\ t.pc = "download"
         /\ "Ok" \in installer_install(t.install_type[1])
         /\ apps' = update_installed(apps, t.app_id, t.release[1].tag_name,
                                     t.install_type[1])
         /\ last_ok' = IF t.app_id \in DOMAIN apps
                        THEN [id \in DOMAIN last_ok \cup {t.app_id} |->
                                IF id = t.app_id THEN t.install_type[1] ELSE last_ok[id]]
                        ELSE last_ok
         /\ InstallComplete(t, TRUE)
    /\ UNCHANGED <<running, starts, next_rowid, app_rows, spawned, fetches,
                   sleeping, self_seed>>
    /\ UNCHANGED lib_vars

\* The row's uninstall button (connect_uninstall closure -> uninstall_app):
\* the future running do_uninstall is spawned.
UninstallClick ==
    /\ running
    /\ InFlight < MaxTasks
    /\ \E i \in 1..Len(app_rows) :
         spawned' = spawned (+) SetToBag({[kind |-> "uninstall",
                                           app_id |-> app_rows[i].app_id]})
    /\ UNCHANGED <<running, starts, apps, next_rowid, app_rows, chan, installs, fetches,
                   sleeping, last_ok, self_seed>>
    /\ UNCHANGED lib_vars

do_uninstall_store_clears_first(db, app_id, result) == clear_installed(db, app_id)

\* The store after do_uninstall's call of installer.uninstall: on an error
\* the ? returns before db.clear_installed.
do_uninstall_store(db, app_id, result) ==
    IF result = "Ok" THEN clear_installed(db, app_id) ELSE db

\* The future of uninstall_app: do_uninstall has no await, then the send.
Uninstall ==
    /\ running
    /\ \E t \in BagToSet(spawned) :
         /\ t.kind = "uninstall"
         /\ Len(chan) < MaxChan
         /\ spawned' = spawned (-) SetToBag({t})
         /\ LET app == get_app(apps, t.app_id)
            IN  IF app = None \/ app[1].install_type = None
                THEN /\ chan' = Append(chan, Msg("UninstallComplete", t.app_id, FALSE, <<>>))
                     /\ UNCHANGED apps
                ELSE \E result \in installer_uninstall(app[1].install_type[1]) :
                       /\ chan' = Append(chan, Msg("UninstallComplete", t.app_id,
                                                   result = "Ok", <<>>))
                       /\ apps' = do_uninstall_store(apps, t.app_id, result)
    /\ UNCHANGED <<running, starts, next_rowid, app_rows, installs, fetches, sleeping,
                   last_ok, self_seed>>
    /\ UNCHANGED lib_vars

\* The refresh button: refresh_all_apps spawns its future.
RefreshClick ==
    /\ running
    /\ InFlight < MaxTasks
    /\ spawned' = spawned (+) SetToBag({[kind |-> "refresh", app_id |-> 0]})
    /\ UNCHANGED <<running, starts, apps, next_rowid, app_rows, chan, installs, fetches,
                   sleeping, last_ok, self_seed>>
    /\ UNCHANGED lib_vars

\* The future of refresh_all_apps up to its sleep: one tokio fetch per app.
Refresh ==
    /\ running
    /\ \E t \in BagToSet(spawned) :
         /\ t.kind = "refresh"
         /\ LET loaded == get_all_apps(apps)
            IN  /\ InFlight + Len(loaded) <= MaxTasks
                /\ fetches' = fetches (+) SetToBag({ [app_id |-> loaded[i].id, notify |-> FALSE] :
                                                      i \in 1..Len(loaded) })
         /\ spawned' = spawned (-) SetToBag({t})
         /\ sleeping' = sleeping + 1
    /\ UNCHANGED <<running, starts, apps, next_rowid, app_rows, chan, installs,
                   last_ok, self_seed>>
    /\ UNCHANGED lib_vars

\* The 2 s sleep of a refresh future is over: RefreshComplete is sent.
RefreshTimer ==
    /\ running
    /\ sleeping > 0
    /\ Len(chan) < MaxChan
    /\ sleeping' = sleeping - 1
    /\ chan' = Append(chan, Msg("RefreshComplete", 0, TRUE, <<>>))
    /\ UNCHANGED <<running, starts, apps, next_rowid, app_rows, spawned, installs, fetches,
                   last_ok, self_seed>>
    /\ UNCHANGED lib_vars

\* A tokio fetch task ends: on a release, update_latest_version and, for
\* the tasks of load_apps, AppUpdated; on an error, nothing.
FetchDone ==
    /\ running
    /\ \E t \in BagToSet(fetches) :
         /\ fetches' = fetches (-) SetToBag({t})
         /\ \/ UNCHANGED <<apps, chan>>
            \/ \E tag \in Tags :
                 /\ apps' = update_latest_version(apps, t.app_id, tag)
                 /\ IF t.notify
                    THEN /\ Len(chan) < MaxChan
                         /\ chan' = Append(chan, Msg("AppUpdated", t.app_id, TRUE, <<>>))
                    ELSE UNCHANGED chan
    /\ UNCHANGED <<running, starts, next_rowid, app_rows, spawned, installs, sleeping,
                   last_ok, self_seed>>
    /\ UNCHANGED lib_vars

Next ==
    \/ Startup
    \/ Quit
    \/ LoadApps
    \/ AddApp
    \/ DeleteClick
    \/ Recv
    \/ InstallClick
    \/ InstallStart
    \/ InstallFetchFailed
    \/ InstallFetched
    \/ InstallFailed
    \/ InstallSucceeded
    \/ UninstallClick
    \/ Uninstall
    \/ RefreshClick
    \/ Refresh
    \/ RefreshTimer
    \/ FetchDone

Spec == Init /\ [][Next]_vars

(***************************************************************************)
(* The installation dispatcher (core/installer.rs).  Every strategy is the *)
(* set of its possible outcomes on the machine: what it returned, which    *)
(* external commands it ran with which status, and the files afterwards.   *)
(***************************************************************************)
\* Command::status(): exit status 0, a non-zero exit status, or an Err
\* because the command could not be started.
ExitStatuses == {"success", "failure", "spawn_error"}

Call(tool, status) == [tool |-> tool, status |-> status]

Outcome(result, calls, fs) == [result |-> result, calls |-> calls, files |-> fs]

\* A strategy that runs one command and fails unless it exits with 0.
run_one_tool(fs, tool) ==
    { Outcome(IF st = "success" THEN "Ok" ELSE "ToolError", <<Call(tool, st)>>, fs) :
        st \in ExitStatuses }

install_deb_single_attempt(fs, path) == run_one_tool(fs, "pkexec dpkg -i")

install_deb(fs, path) ==
    { Outcome(IF st = "success" THEN "Ok" ELSE "ToolError",
              <<Call("pkexec dpkg -i", st)>>, fs) : st \in {"success", "spawn_error"} }
    \cup
    { Outcome(IF fix = "success" THEN "Ok" ELSE "ToolError",
              <<Call("pkexec dpkg -i", "failure"),
                Call("pkexec apt-get install -f -y", fix)>>, fs) : fix \in ExitStatuses }

\* which dnf, then exactly one of the two package tools.
rpm_with_fallback(fs, dnf_tool, rpm_tool) ==
    { Outcome(IF st = "success" THEN "Ok" ELSE "ToolError",
              <<Call("which dnf", w),
                Call(IF w = "success" THEN dnf_tool ELSE rpm_tool, st)>>, fs) :
        w \in ExitStatuses, st \in ExitStatuses }
    \cup
    { Outcome(IF st = "success" THEN "Ok" ELSE "ToolError",
              <<Call("which dnf", "success"), Call(dnf_tool, "failure"),
                Call(rpm_tool, st)>>, fs) : st \in ExitStatuses }

rpm_strategy(fs, dnf_tool, rpm_tool) ==
    { Outcome(IF st = "success" THEN "Ok" ELSE "ToolError",
              <<Call("which dnf", w),
                Call(IF w = "success" THEN dnf_tool ELSE rpm_tool, st)>>, fs) :
        w \in ExitStatuses, st \in ExitStatuses }

install_rpm(fs, path) == rpm_strategy(fs, "pkexec dnf install -y", "pkexec rpm -i --force")

uninstall_rpm(fs, package_name) == rpm_strategy(fs, "pkexec dnf remove -y", "pkexec rpm -e")

install_flatpak(fs, path) ==
    IF ends_with(path, <<".","f","l","a","t","p","a","k","r","e","f">>)
    THEN run_one_tool(fs, "flatpak install --user -y")
    ELSE run_one_tool(fs, "flatpak install --user -y --bundle")

install_snap(fs, path) == run_one_tool(fs, "pkexec snap install --dangerous")

uninstall_deb(fs, package_name) == run_one_tool(fs, "pkexec dpkg -r")

uninstall_flatpak(fs, package_name) == run_one_tool(fs, "flatpak uninstall --user -y")

uninstall_snap(fs, package_name) == run_one_tool(fs, "pkexec snap remove")

\* str::trim_end_matches: the suffix is removed as often as it occurs.
RECURSIVE trim_end_matches(_, _)
trim_end_matches(s, p) ==
    IF ends_with(s, p) THEN trim_end_matches(SubSeq(s, 1, Len(s) - Len(p)), p) ELSE s

\* The desktop entry of an AppImage file is <desktop_name>.desktop.
desktop_name(filename) ==
    trim_end_matches(trim_end_matches(filename, <<".","A","p","p","I","m","a","g","e">>),
                     <<".","a","p","p","i","m","a","g","e">>)

\* install_appimage: copy, chmod, desktop entry; each step may fail with an
\* I/O error and ends the install, leaving what the earlier steps did.
install_appimage(fs, path) ==
    { Outcome("IoError", <<>>, fs),
      Outcome("IoError", <<>>, [fs EXCEPT !.appimages = @ \cup {path}]),
      Outcome("Ok", <<>>, [fs EXCEPT !.appimages = @ \cup {path},
                                     !.desktop = @ \cup {desktop_name(path)}]) }

\* install_binary: copy into ~/.local/bin, chmod.
install_binary(fs, path) ==
    { Outcome("IoError", <<>>, fs),
      Outcome("IoError", <<>>, [fs EXCEPT !.bin = @ \cup {path}]),
      Outcome("Ok", <<>>, [fs EXCEPT !.bin = @ \cup {path}]) }

\* The entries of the AppImage directory uninstall_appimage would remove.
appimage_matches(fs, package_name) ==
    { f \in fs.appimages : contains(to_lowercase(f), to_lowercase(package_name)) }

\* The files after the AppImages in gone are removed; of their desktop
\* entries those in kept stay (remove_file failed, its result is dropped).
remove_appimages(fs, gone, kept) ==
    [fs EXCEPT !.appimages = @ \ gone,
               !.desktop = @ \ ({ desktop_name(f) : f \in gone } \ kept)]

uninstall_appimage_exact_name(fs, package_name) ==
    LET matches == { f \in fs.appimages : f = package_name }
    IN  IF matches = {} THEN { Outcome("NotFound", <<>>, fs) }
        ELSE { Outcome("Ok", <<>>, remove_appimages(fs, matches, {})) }

\* uninstall_appimage: read_dir may fail (nothing is found then); the
\* entries come in any order; a failing remove_file of an AppImage ends the
\* call with the error, after the entries before it have been handled.
uninstall_appimage(fs, package_name) ==
    LET matches == appimage_matches(fs, package_name)
        entries(gone) == { desktop_name(f) : f \in gone } \cap fs.desktop
    IN  { Outcome("NotFound", <<>>, fs) }
        \cup
        { Outcome(IF matches = {} THEN "NotFound" ELSE "Ok", <<>>,
                  remove_appimages(fs, matches, kept)) : kept \in SUBSET entries(matches) }
        \cup
        UNION { { Outcome("IoError", <<>>, remove_appimages(fs, gone, kept)) :
                    kept \in SUBSET entries(gone) } :
                gone \in { g \in SUBSET matches : g # matches } }

\* uninstall_binary: ~/.local/bin/<package_name> is removed if it exists.
uninstall_binary(fs, package_name) ==
    IF package_name \in fs.bin
    THEN { Outcome("Ok", <<>>, [fs EXCEPT !.bin = @ \ {package_name}]),
           Outcome("IoError", <<>>, fs) }
    ELSE { Outcome("NotFound", <<>>, fs) }

Installer_install_source_as_binary(fs, path, install_type) ==
    CASE install_type = "Deb" -> install_deb(fs, path)
      [] install_type = "Rpm" -> install_rpm(fs, path)
      [] install_type = "AppImage" -> install_appimage(fs, path)
      [] install_type = "Flatpak" -> install_flatpak(fs, path)
      [] install_type = "Snap" -> install_snap(fs, path)
      [] install_type = "Binary" -> install_binary(fs, path)
      [] install_type = "Source" -> install_binary(fs, path)

\* Installer::install
Installer_install(fs, path, install_type) ==
    CASE install_type = "Deb" -> install_deb(fs, path)
      [] install_type = "Rpm" -> install_rpm(fs, path)
      [] install_type = "AppImage" -> install_appimage(fs, path)
      [] install_type = "Flatpak" -> install_flatpak(fs, path)
      [] install_type = "Snap" -> install_snap(fs, path)
      [] install_type = "Binary" -> install_binary(fs, path)
      [] install_type = "Source" -> { Outcome("Unsupported", <<>>, fs) }

\* Installer::uninstall
Installer_uninstall(fs, package_name, install_type) ==
    CASE install_type = "Deb" -> uninstall_deb(fs, package_name)
      [] install_type = "Rpm" -> uninstall_rpm(fs, package_name)
      [] install_type = "AppImage" -> uninstall_appimage(fs, package_name)
      [] install_type = "Flatpak" -> uninstall_flatpak(fs, package_name)
      [] install_type = "Snap" -> uninstall_snap(fs, package_name)
      [] install_type = "Binary" -> uninstall_binary(fs, package_name)
      [] install_type = "Source" -> { Outcome("Unsupported", <<>>, fs) }

(***************************************************************************)
(* Calls of the dispatcher, one after the other, on one machine.           *)
(***************************************************************************)
MaxOps == 4     \* dispatcher calls

\* The downloaded files handed to install (the file name of the path).
InstallFiles == { <<"H","e","l","l","o",".","A","p","p","I","m","a","g","e">>,
                  <<"h","e","l","l","o","-","c","l","i",".","a","p","p","i","m","a","g","e">>,
                  <<"a","p","p",".","A","p","p","I","m","a","g","e">>,
                  <<"h","e","l","l","o">>,
                  <<"h","e","l","l","o","-","l","i","n","u","x">> }

\* The package names handed to uninstall (the repository name).
PackageNames == { <<"h","e","l","l","o">>, <<"H","e","l","l","o">>, <<"a","p","p">> }

InitInstaller ==
    /\ host = HostX8664
    /\ cname = <<>>
    /\ cout = None
    /\ rassets = <<>>
    /\ rpref = None
    /\ rout = None
    /\ AppStopped
    /\ InstallerIdle
    /\ VersionIdle
    /\ UiIdle

\* One call of Installer::install.  before is history: the files before it.
InstallerInstall ==
    /\ nops < MaxOps
    /\ \E t \in InstallType, path \in InstallFiles :
         \E out \in Installer_install(files, path, t) :
            /\ iop' = Some([kind |-> "install", format |-> t, name |-> path,
                            before |-> files])
            /\ icalls' = out.calls
            /\ ires' = Some(out.result)
            /\ files' = out.files
    /\ nops' = nops + 1
    /\ UNCHANGED <<pure_vars, app_vars, ver_vars, ui_vars>>

\* One call of Installer::uninstall.
InstallerUninstall ==
    /\ nops < MaxOps
    /\ \E t \in InstallType, package_name \in PackageNames :
         \E out \in Installer_uninstall(files, package_name, t) :
            /\ iop' = Some([kind |-> "uninstall", format |-> t, name |-> package_name,
                            before |-> files])
            /\ icalls' = out.calls
            /\ ires' = Some(out.result)
            /\ files' = out.files
    /\ nops' = nops + 1
    /\ UNCHANGED <<pure_vars, app_vars, ver_vars, ui_vars>>

NextInstaller == InstallerInstall \/ InstallerUninstall

SpecInstaller == InitInstaller /\ [][NextInstaller]_vars

(***************************************************************************)
(* The version comparator (core/models.rs).                                *)
(***************************************************************************)
\* str::trim_start_matches(char): the character is removed as often as it
\* leads the string.
RECURSIVE trim_start_matches(_, _)
trim_start_matches(s, c) ==
    IF s # <<>> /\ s[1] = c THEN trim_start_matches(Tail(s), c) ELSE s

normalize_version(version) ==
    to_lowercase(trim_start_matches(trim_start_matches(version, "v"), "V"))

Digits == <<"0","1","2","3","4","5","6","7","8","9">>

is_digit(c) == \E i \in 1..10 : Digits[i] = c

digit_value(c) == (CHOOSE i \in 1..10 : Digits[i] = c) - 1

RECURSIVE to_number(_)
to_number(s) ==
    IF s = <<>> THEN 0
    ELSE 10 * to_number(SubSeq(s, 1, Len(s) - 1)) + digit_value(s[Len(s)])

\* str::split: the pieces of s between the occurrences of sep.
RECURSIVE split(_, _)
split(s, sep) ==
    IF \E i \in 1..Len(s) : s[i] = sep
    THEN LET i == CHOOSE k \in 1..Len(s) : s[k] = sep /\ \A j \in 1..(k - 1) : s[j] # sep
         IN  <<SubSeq(s, 1, i - 1)>> \o split(SubSeq(s, i + 1, Len(s)), sep)
    ELSE <<s>>

\* A numeric field of a semantic version: digits, no leading zero.
semver_numeric(p) ==
    /\ p # <<>>
    /\ \A i \in 1..Len(p) : is_digit(p[i])
    /\ (Len(p) = 1 \/ p[1] # "0")

\* A pre-release identifier: letters, digits and hyphens; a numeric one has
\* no leading zero.
semver_identifier(p) ==
    /\ p # <<>>
    /\ \A i \in 1..Len(p) : p[i] \notin {".", "_"}
    /\ ((\A i \in 1..Len(p) : is_digit(p[i])) => semver_numeric(p))

\* semver::Version::parse on strings without build metadata:
\* major.minor.patch, then an optional -pre.release.
semver_parse(s) ==
    LET dash == IF \E i \in 1..Len(s) : s[i] = "-"
                THEN CHOOSE k \in 1..Len(s) : s[k] = "-" /\ \A j \in 1..(k - 1) : s[j] # "-"
                ELSE 0
        core == split(IF dash = 0 THEN s ELSE SubSeq(s, 1, dash - 1), ".")
        pre == IF dash = 0 THEN <<>> ELSE split(SubSeq(s, dash + 1, Len(s)), ".")
    IN  IF /\ Len(core) = 3
           /\ \A i \in 1..3 : semver_numeric(core[i])
           /\ \A i \in 1..Len(pre) : semver_identifier(pre[i])
        THEN Some([major |-> to_number(core[1]), minor |-> to_number(core[2]),
                   patch |-> to_number(core[3]), pre |-> pre])
        ELSE None

\* The order of two pre-release identifiers: numeric ones numerically and
\* below the others, the others in byte order.
identifier_less(x, y) ==
    LET xn == \A i \in 1..Len(x) : is_digit(x[i])
        yn == \A i \in 1..Len(y) : is_digit(y[i])
    IN  IF xn /\ yn THEN to_number(x) < to_number(y)
        ELSE IF xn # yn THEN xn
        ELSE str_less(x, y)

\* Two lists of identifiers, compared identifier by identifier; a proper
\* prefix is below the longer list.
RECURSIVE identifiers_less(_, _)
identifiers_less(a, b) ==
    IF a = <<>> THEN b # <<>>
    ELSE IF b = <<>> THEN FALSE
    ELSE IF a[1] = b[1] THEN identifiers_less(Tail(a), Tail(b))
    ELSE identifier_less(a[1], b[1])

\* The order of two pre-release tags; the empty tag (a release) is above
\* every other.
prerelease_less(x, y) ==
    IF x = <<>> THEN FALSE
    ELSE IF y = <<>> THEN TRUE
    ELSE identifiers_less(x, y)

\* new_sem > old_sem
semver_greater(a, b) ==
    IF a.major # b.major THEN a.major > b.major
    ELSE IF a.minor # b.minor THEN a.minor > b.minor
    ELSE IF a.patch # b.patch THEN a.patch > b.patch
    ELSE prerelease_less(b.pre, a.pre)

is_newer_version_string_only(new_version, old_version) ==
    str_less(normalize_version(old_version), normalize_version(new_version))

is_newer_version(new_version, old_version) ==
    LET new_norm == normalize_version(new_version)
        old_norm == normalize_version(old_version)
    IN  IF semver_parse(new_norm) # None /\ semver_parse(old_norm) # None
        THEN semver_greater(semver_parse(new_norm)[1], semver_parse(old_norm)[1])
        ELSE str_less(old_norm, new_norm)

\* TrackedApp::has_update
has_update(installed_version, latest_version) ==
    /\ installed_version # None
    /\ latest_version # None
    /\ normalize_version(latest_version[1]) # normalize_version(installed_version[1])
    /\ is_newer_version(latest_version[1], installed_version[1])

\* Version tags as GitHub releases carry them: a body, behind nothing or
\* one or two of the letters v and V.
VersionPrefixes == {<<>>, <<"v">>, <<"V">>, <<"v","V">>, <<"V","v">>}

VersionBodies ==
    {<<"1",".","0">>,
     <<"1",".","5">>,
     <<"1",".","0",".","0">>,
     <<"1",".","1",".","0">>,
     <<"1",".","2",".","0">>,
     <<"1",".","9",".","0">>,
     <<"1",".","1","0",".","0">>,
     <<"1",".","0",".","0","-","r","c">>,
     <<"1",".","0",".","0","-","R","C">>,
     <<"2">>,
     <<"2",".","0">>}

Versions == {p \o b : p \in VersionPrefixes, b \in VersionBodies}

OptionalVersions == {None} \cup {Some(v) : v \in Versions}

InitVersion ==
    /\ vinstalled \in OptionalVersions
    /\ vlatest \in OptionalVersions
    /\ vout = None
    /\ tstr = <<>>
    /\ tparsed = None
    /\ host = HostX8664
    /\ cname = <<>>
    /\ cout = None
    /\ rassets = <<>>
    /\ rpref = None
    /\ rout = None
    /\ AppStopped
    /\ InstallerIdle
    /\ UiIdle

\* app.has_update() on a tracked app with these two version fields.
CheckHasUpdate ==
    /\ vout = None
    /\ vout' = Some([op |-> "has_update", result |-> has_update(vinstalled, vlatest)])
    /\ UNCHANGED <<vinstalled, vlatest, tstr, tparsed, pure_vars, app_vars, inst_vars, ui_vars>>

\* is_newer_version(latest, installed) on two version strings.
CheckIsNewer ==
    /\ vout = None
    /\ vinstalled # None
    /\ vlatest # None
    /\ vout' = Some([op |-> "is_newer_version",
                     result |-> is_newer_version(vlatest[1], vinstalled[1])])
    /\ UNCHANGED <<vinstalled, vlatest, tstr, tparsed, pure_vars, app_vars, inst_vars, ui_vars>>

NextVersion == CheckHasUpdate \/ CheckIsNewer

SpecVersion == InitVersion /\ [][NextVersion]_vars

(***************************************************************************)
(* Inputs of InstallType::from_str: the seven tags in lower case, upper    *)
(* case and mixed case, and strings that are no tag: a tag with a letter   *)
(* more or less, with a leading dot, with a suffix, and other words.       *)
(***************************************************************************)
TagSpellings ==
    {
      <<"d","e","b">>,
      <<"D","E","B">>,
      <<"D","e","b">>,
      <<"r","p","m">>,
      <<"R","P","M">>,
      <<"R","p","m">>,
      <<"a","p","p","i","m","a","g","e">>,
      <<"A","P","P","I","M","A","G","E">>,
      <<"A","p","p","i","m","a","g","e">>,
      <<"f","l","a","t","p","a","k">>,
      <<"F","L","A","T","P","A","K">>,
      <<"F","l","a","t","p","a","k">>,
      <<"s","n","a","p">>,
      <<"S","N","A","P">>,
      <<"S","n","a","p">>,
      <<"b","i","n","a","r","y">>,
      <<"B","I","N","A","R","Y">>,
      <<"B","i","n","a","r","y">>,
      <<"s","o","u","r","c","e">>,
      <<"S","O","U","R","C","E">>,
      <<"S","o","u","r","c","e">>,
      <<"A","p","p","I","m","a","g","e">>,
      <<"d","E","B">>,
      <<"r","P","M">>,
      <<"a","P","P","I","M","A","G","E">>,
      <<"f","L","A","T","P","A","K">>,
      <<"s","N","A","P">>,
      <<"b","I","N","A","R","Y">>,
      <<"s","O","U","R","C","E">> }

OtherStrings ==
    {
      <<"d","e","b","s">>,
      <<"d","e">>,
      <<".","d","e","b">>,
      <<"d","e","b","-","d">>,
      <<"r","p","m","s">>,
      <<"r","p">>,
      <<".","r","p","m">>,
      <<"r","p","m","-","r">>,
      <<"a","p","p","i","m","a","g","e","s">>,
      <<"a","p","p","i","m","a","g">>,
      <<".","a","p","p","i","m","a","g","e">>,
      <<"a","p","p","i","m","a","g","e","-","a">>,
      <<"f","l","a","t","p","a","k","s">>,
      <<"f","l","a","t","p","a">>,
      <<".","f","l","a","t","p","a","k">>,
      <<"f","l","a","t","p","a","k","-","f">>,
      <<"s","n","a","p","s">>,
      <<"s","n","a">>,
      <<".","s","n","a","p">>,
      <<"s","n","a","p","-","s">>,
      <<"b","i","n","a","r","y","s">>,
      <<"b","i","n","a","r">>,
      <<".","b","i","n","a","r","y">>,
      <<"b","i","n","a","r","y","-","b">>,
      <<"s","o","u","r","c","e","s">>,
      <<"s","o","u","r","c">>,
      <<".","s","o","u","r","c","e">>,
      <<"s","o","u","r","c","e","-","s">>,
      <<>>,
      <<"z","i","p">>,
      <<"e","x","e">>,
      <<"t","a","r",".","g","z">> }

TagStrings == TagSpellings \cup OtherStrings \cup {as_str(t) : t \in InstallType}

InitTag ==
    /\ tstr \in TagStrings
    /\ tparsed = None
    /\ vinstalled = None
    /\ vlatest = None
    /\ vout = None
    /\ host = HostX8664
    /\ cname = <<>>
    /\ cout = None
    /\ rassets = <<>>
    /\ rpref = None
    /\ rout = None
    /\ AppStopped
    /\ InstallerIdle
    /\ UiIdle

\* InstallType::from_str(tstr)
ParseTag ==
    /\ tparsed = None
    /\ tparsed' = Some(from_str(tstr))
    /\ UNCHANGED <<vinstalled, vlatest, vout, tstr, pure_vars, app_vars, inst_vars, ui_vars>>

NextTag == ParseTag

SpecTag == InitTag /\ [][NextTag]_vars

(***************************************************************************)
(* The main context (ui/main_window.rs): every handler and every future    *)
(* spawned with glib::spawn_future_local runs on the UI thread, one poll   *)
(* at a time.  A poll runs up to the next await; a synchronous call inside *)
(* a poll keeps the UI thread until it returns.                            *)
(***************************************************************************)
MaxInstallClicks == 2     \* clicks on install buttons
MaxUninstallClicks == 1   \* clicks on uninstall buttons
MaxUpdateAll == 1         \* activations of the update-all action

AppIds == {1, 2}

InstalledVersions == {None, Some(<<"1",".","0",".","0">>), Some(<<"v","1",".","1",".","0">>)}

LatestVersions == {None} \cup {Some(tag) : tag \in Tags}

\* The rows of a store written by earlier runs: app 1 is Autonomix, app 2
\* the other repository; a row has a format exactly if it has an installed
\* version.
StoredRows(id) ==
    LET repo == IF id = 1 THEN SelfRepo ELSE OtherRepo
    IN  { [repo_owner |-> repo.owner, repo_name |-> repo.name,
           display_name |-> repo.display_name,
           installed_version |-> iv, latest_version |-> lv,
           install_type |-> IF iv = None THEN None ELSE Some(as_str("AppImage"))] :
          iv \in InstalledVersions, lv \in LatestVersions }

InitUi ==
    /\ ui_db \in { db \in [AppIds -> UNION {StoredRows(id) : id \in AppIds}] :
                     \A id \in AppIds : db[id] \in StoredRows(id) }
    /\ workflows = EmptyBag
    /\ bulks = <<>>
    /\ ui_thread = None
    /\ inbox = <<>>
    /\ clicks = [install |-> 0, uninstall |-> 0]
    /\ host = HostX8664
    /\ cname = <<>>
    /\ cout = None
    /\ rassets = <<>>
    /\ rpref = None
    /\ rout = None
    /\ AppStopped
    /\ InstallerIdle
    /\ VersionIdle

\* The for loop of update_all_apps over the apps it has left: the index of
\* the first app with app.has_update(), 0 when there is none.
next_update_any(queue) == IF queue = <<>> THEN 0 ELSE 1

next_update(queue) ==
    IF \E i \in 1..Len(queue) : has_update(queue[i].installed_version, queue[i].latest_version)
    THEN CHOOSE i \in 1..Len(queue) :
           /\ has_update(queue[i].installed_version, queue[i].latest_version)
           /\ \A j \in 1..(i - 1) :
                ~has_update(queue[j].installed_version, queue[j].latest_version)
    ELSE 0

\* do_install has returned to the future that awaited it: the future sends
\* InstallComplete; an update_all_apps future goes on with its loop.
do_install_returned(w, ok) ==
    /\ inbox' = Append(inbox, [type |-> "InstallComplete", app_id |-> w.app_id, ok |-> ok])
    /\ workflows' = workflows (-) SetToBag({w})
    /\ bulks' = IF w.by = 0 THEN bulks ELSE [bulks EXCEPT ![w.by].pc = "ready"]

\* The row's install button is clicked: install_app spawns a future.  The
\* button is insensitive only when the row has no latest version.
UiInstallClick ==
    /\ ui_thread = None
    /\ clicks.install < MaxInstallClicks
    /\ \E id \in AppIds :
         /\ ui_db[id].latest_version # None
         /\ workflows' = workflows (+) SetToBag({[app_id |-> id, pc |-> "start", by |-> 0,
                                                  snapshot |-> None]})
    /\ clicks' = [clicks EXCEPT !.install = @ + 1]
    /\ UNCHANGED <<ui_db, bulks, ui_thread, inbox>>
    /\ UNCHANGED <<pure_vars, app_vars, inst_vars, ver_vars>>

\* First poll of an install_app future: do_install reads the app and awaits
\* get_latest_release.
UiInstallStart ==
    /\ ui_thread = None
    /\ \E w \in BagToSet(workflows) :
         /\ w.pc = "start"
         /\ IF get_app(ui_db, w.app_id) = None
            THEN do_install_returned(w, FALSE)
            ELSE /\ workflows' = (workflows (-) SetToBag({w})) (+)
                                 SetToBag({[w EXCEPT !.pc = "release"]})
                 /\ UNCHANGED <<bulks, inbox>>
    /\ UNCHANGED <<ui_db, ui_thread, clicks>>
    /\ UNCHANGED <<pure_vars, app_vars, inst_vars, ver_vars>>

\* The update-all action is activated: update_all_apps spawns its future.
UiUpdateAllActivate ==
    /\ ui_thread = None
    /\ Len(bulks) < MaxUpdateAll
    /\ bulks' = Append(bulks, [pc |-> "spawned", queue |-> <<>>, issued |-> 0])
    /\ UNCHANGED <<ui_db, workflows, ui_thread, inbox, clicks>>
    /\ UNCHANGED <<pure_vars, app_vars, inst_vars, ver_vars>>

\* A poll of an update_all_apps future that is not awaiting a do_install: on
\* the first poll get_all_apps; then the loop up to the next app with
\* has_update, whose do_install runs up to its first await.  No handler here
\* deletes an app, so db.get_app finds it.
UiUpdateAllPoll ==
    /\ ui_thread = None
    /\ \E k \in 1..Len(bulks) :
         /\ bulks[k].pc \in {"spawned", "ready"}
         /\ LET queue == IF bulks[k].pc = "spawned" THEN get_all_apps(ui_db)
                         ELSE bulks[k].queue
                i == next_update(queue)
            IN  IF i = 0
                THEN /\ bulks' = [bulks EXCEPT ![k] = [@ EXCEPT !.pc = "done", !.queue = <<>>]]
                     /\ UNCHANGED workflows
                ELSE /\ bulks' = [bulks EXCEPT ![k] =
                                     [pc |-> "awaiting",
                                      queue |-> SubSeq(queue, i + 1, Len(queue)),
                                      issued |-> @.issued + 1]]
                     /\ workflows' = workflows (+)
                            SetToBag({[app_id |-> queue[i].id, pc |-> "release", by |-> k,
                                       snapshot |-> Some(queue[i])]})
    /\ UNCHANGED <<ui_db, ui_thread, inbox, clicks>>
    /\ UNCHANGED <<pure_vars, app_vars, inst_vars, ver_vars>>

\* get_latest_release has answered.  On an error, or when no asset fits,
\* do_install returns; else it awaits download_asset.
UiReleaseAnswered ==
    /\ ui_thread = None
    /\ \E w \in BagToSet(workflows), ok \in BOOLEAN :
         /\ w.pc = "release"
         /\ IF ok
            THEN /\ workflows' = (workflows (-) SetToBag({w})) (+)
                                 SetToBag({[w EXCEPT !.pc = "download"]})
                 /\ UNCHANGED <<bulks, inbox>>
            ELSE do_install_returned(w, FALSE)
    /\ UNCHANGED <<ui_db, ui_thread, clicks>>
    /\ UNCHANGED <<pure_vars, app_vars, inst_vars, ver_vars>>

\* download_asset has failed: do_install returns the error.
UiDownloadFailed ==
    /\ ui_thread = None
    /\ \E w \in BagToSet(workflows) :
         /\ w.pc = "download"
         /\ do_install_returned(w, FALSE)
    /\ UNCHANGED <<ui_db, ui_thread, clicks>>
    /\ UNCHANGED <<pure_vars, app_vars, inst_vars, ver_vars>>

\* download_asset has succeeded: the poll goes on into installer.install,
\* which waits for the package tool it runs.
UiInstallerCall ==
    /\ ui_thread = None
    /\ \E w \in BagToSet(workflows) :
         /\ w.pc = "download"
         /\ workflows' = (workflows (-) SetToBag({w})) (+)
                         SetToBag({[w EXCEPT !.pc = "installing"]})
         /\ ui_thread' = Some([call |-> "installer.install", app_id |-> w.app_id])
    /\ UNCHANGED <<ui_db, bulks, inbox, clicks>>
    /\ UNCHANGED <<pure_vars, app_vars, inst_vars, ver_vars>>

\* installer.install returns: on Ok update_installed; do_install returns.
UiInstallerReturn ==
    /\ ui_thread # None
    /\ ui_thread[1].call = "installer.install"
    /\ \E w \in BagToSet(workflows), result \in installer_install("AppImage") :
         /\ w.pc = "installing"
         /\ ui_db' = IF result = "Ok"
                     THEN update_installed(ui_db, w.app_id, CHOOSE tag \in Tags : TRUE,
                                           "AppImage")
                     ELSE ui_db
         /\ do_install_returned(w, result = "Ok")
    /\ ui_thread' = None
    /\ UNCHANGED clicks
    /\ UNCHANGED <<pure_vars, app_vars, inst_vars, ver_vars>>

\* The row's uninstall button is clicked and the future uninstall_app
\* spawned is polled: do_install's counterpart do_uninstall has no await.
\* It returns at once for an app without a format, else it enters
\* installer.uninstall.
UiUninstallCall ==
    /\ ui_thread = None
    /\ clicks.uninstall < MaxUninstallClicks
    /\ clicks' = [clicks EXCEPT !.uninstall = @ + 1]
    /\ \E id \in AppIds :
         LET app == get_app(ui_db, id)
         IN  IF app = None \/ app[1].install_type = None
             THEN /\ inbox' = Append(inbox, [type |-> "UninstallComplete", app_id |-> id,
                                             ok |-> FALSE])
                  /\ UNCHANGED ui_thread
             ELSE /\ ui_thread' = Some([call |-> "installer.uninstall", app_id |-> id])
                  /\ UNCHANGED inbox
    /\ UNCHANGED <<ui_db, workflows, bulks>>
    /\ UNCHANGED <<pure_vars, app_vars, inst_vars, ver_vars>>

\* installer.uninstall returns: on Ok clear_installed; UninstallComplete is
\* sent.
UiUninstallerReturn ==
    /\ ui_thread # None
    /\ ui_thread[1].call = "installer.uninstall"
    /\ \E result \in installer_uninstall("AppImage") :
         /\ ui_db' = IF result = "Ok" THEN clear_installed(ui_db, ui_thread[1].app_id)
                     ELSE ui_db
         /\ inbox' = Append(inbox, [type |-> "UninstallComplete",
                                    app_id |-> ui_thread[1].app_id, ok |-> result = "Ok"])
    /\ ui_thread' = None
    /\ UNCHANGED <<workflows, bulks, clicks>>
    /\ UNCHANGED <<pure_vars, app_vars, inst_vars, ver_vars>>

\* One turn of the message handler.
UiRecv ==
    /\ ui_thread = None
    /\ inbox # <<>>
    /\ inbox' = Tail(inbox)
    /\ UNCHANGED <<ui_db, workflows, bulks, ui_thread, clicks>>
    /\ UNCHANGED <<pure_vars, app_vars, inst_vars, ver_vars>>

NextUi ==
    \/ UiInstallClick
    \/ UiInstallStart
    \/ UiUpdateAllActivate
    \/ UiUpdateAllPoll
    \/ UiReleaseAnswered
    \/ UiDownloadFailed
    \/ UiInstallerCall
    \/ UiInstallerReturn
    \/ UiUninstallCall
    \/ UiUninstallerReturn
    \/ UiRecv

SpecUi == InitUi /\ [][NextUi]_vars

(***************************************************************************)
(* Claims about the resolver, checked under SpecResolve.                   *)
(***************************************************************************)
R_Idx == 1..Len(rassets)
R_Compat(i) ==
    asset_is_linux[rassets[i]] /\ asset_matches_architecture[rassets[i]][host]
R_Format(i) == asset_detect_install_type[rassets[i]]
R_Result == rout[1]

\* The least index of a non-empty set of indices, as Option.
R_First(S) == IF S = {} THEN None ELSE Some(CHOOSE i \in S : \A j \in S : i <= j)

\* The preference misses: none given, or no compatible asset has that format.
R_PrefMisses ==
    \/ rpref = None
    \/ ~\E i \in R_Idx : R_Compat(i) /\ R_Format(i) = rpref

R_Rank(t) ==
    CASE t = "Deb" -> 1 [] t = "Rpm" -> 2 [] t = "AppImage" -> 3 [] t = "Flatpak" -> 4
      [] t = "Snap" -> 5 [] t = "Binary" -> 6 [] t = "Source" -> 7

(***************************************************************************)
(* C1: the resolver returns none exactly when no asset is both             *)
(* Linux-compatible and architecture-matching; otherwise it returns one of *)
(* the assets that is both.                                                *)
(***************************************************************************)
C1_NoneIffNoCompatible ==
    rout # None =>
        /\ R_Result = None <=> ~\E i \in R_Idx : R_Compat(i)
        /\ R_Result # None => R_Result[1] \in R_Idx /\ R_Compat(R_Result[1])

\* An architecture-matching asset that is not Linux-compatible is passed over.
C1_Witness ==
    /\ rout # None
    /\ R_Result # None
    /\ \E i \in R_Idx : /\ i < R_Result[1]
                        /\ ~asset_is_linux[rassets[i]]
                        /\ asset_matches_architecture[rassets[i]][host]
                        /\ R_Format(i) # None

(***************************************************************************)
(* C2: when a preferred format is given and some compatible asset has it,  *)
(* the resolver returns the first such asset in input order, even when     *)
(* compatible assets of a higher-priority format are present.              *)
(***************************************************************************)
C2_PreferredFirst ==
    (rout # None /\ rpref # None) =>
        LET hits == { i \in R_Idx : R_Compat(i) /\ R_Format(i) = rpref }
        IN  hits # {} => R_Result = R_First(hits)

\* AppImage preferred and returned although a compatible .deb comes first.
C2_Witness ==
    /\ rout # None
    /\ rpref = Some("AppImage")
    /\ R_Result # None
    /\ R_Format(R_Result[1]) = Some("AppImage")
    /\ \E i \in R_Idx : i < R_Result[1] /\ R_Compat(i) /\ R_Format(i) = Some("Deb")
    /\ \E i \in R_Idx : i > R_Result[1] /\ R_Compat(i) /\ R_Format(i) = Some("AppImage")

(***************************************************************************)
(* C3: when the preference misses (none given, or no compatible asset has  *)
(* it), the resolver returns the first compatible asset of the             *)
(* highest-priority format present among the compatible assets, in the     *)
(* order Deb > Rpm > AppImage > Flatpak > Snap > Binary > Source; and the  *)
(* result equals that of the resolver called with no preference.           *)
(***************************************************************************)
C3_PriorityOrder ==
    (rout # None /\ R_PrefMisses) =>
        LET present == { t \in InstallType :
                            \E i \in R_Idx : R_Compat(i) /\ R_Format(i) = Some(t) }
            best == CHOOSE t \in present : \A u \in present : R_Rank(t) <= R_Rank(u)
        IN  /\ present # {} =>
                R_Result = R_First({ i \in R_Idx : R_Compat(i) /\ R_Format(i) = Some(best) })
            /\ R_Result = find_best_asset(rassets, None, host)

\* [app.rpm, app.deb, app.AppImage] with a preference that misses: app.deb.
C3_Witness ==
    /\ rout # None
    /\ rassets = << <<"a","p","p",".","r","p","m">>, <<"a","p","p",".","d","e","b">>,
                    <<"a","p","p",".","A","p","p","I","m","a","g","e">> >>
    /\ rpref = Some("Snap")
    /\ R_Result = Some(2)

(***************************************************************************)
(* C4 as claimed: the resolver never returns an asset whose format is not  *)
(* recognised.                                                             *)
(***************************************************************************)
C4_NeverUnrecognized ==
    (rout # None /\ R_Result # None) => R_Format(R_Result[1]) # None

(***************************************************************************)
(* C4 as amended: the resolver returns an asset whose format is not        *)
(* recognised only when no compatible asset has a recognised format.       *)
(***************************************************************************)
C4_UnrecognizedOnlyAsFallback ==
    (rout # None /\ R_Result # None /\ R_Format(R_Result[1]) = None) =>
        \A i \in R_Idx : R_Compat(i) => R_Format(i) = None

\* A Linux-named .zip is returned; the only recognised asset is not compatible.
C4_Witness ==
    /\ rout # None
    /\ R_Result # None
    /\ R_Format(R_Result[1]) = None
    /\ \E i \in R_Idx : ~R_Compat(i) /\ R_Format(i) # None

(***************************************************************************)
(* C5: when the compatible set is non-empty but no compatible asset has    *)
(* the preferred format or any of the seven formats, the resolver returns  *)
(* the first compatible asset in input order.                              *)
(***************************************************************************)
C5_FallbackFirstCompatible ==
    rout # None =>
        LET compat == { i \in R_Idx : R_Compat(i) }
        IN  (compat # {} /\ \A i \in compat : R_Format(i) = None) =>
                R_Result = R_First(compat)

\* The first compatible asset is not the first asset of the list.
C5_Witness ==
    /\ rout # None
    /\ Len(rassets) >= 2
    /\ ~R_Compat(1)
    /\ \A i \in R_Idx : R_Compat(i) => R_Format(i) = None
    /\ R_Result = Some(2)

(***************************************************************************)
(* C8: is_linux_compatible is computed from the lower-cased name and the   *)
(* exclusion list wins: it is false whenever the name contains windows,    *)
(* .exe, .msi, macos, darwin or .dmg; otherwise it is true iff the name    *)
(* ends with .deb/.rpm/.appimage/.snap/.flatpak, or contains linux, or     *)
(* ends with .tar.gz/.tar.xz/.tar.bz2.                                     *)
(***************************************************************************)
(* The install workflow and the store, under Spec.                         *)
(***************************************************************************)
\* The install future t is at its download await.
W_Downloading(t) == t \in BagToSet(installs) /\ t.pc = "download"

\* The release t fetched offers a compatible asset of format f.
W_Offers(t, f) ==
    \E i \in 1..Len(t.release[1].assets) :
        LET n == t.release[1].assets[i]
        IN  /\ asset_is_linux[n]
            /\ asset_matches_architecture[n][host]
            /\ asset_detect_install_type[n] = Some(f)

\* This step is the successful end of the install future t.
W_InstallOk(t) ==
    /\ W_Downloading(t)
    /\ installs' = installs (-) SetToBag({t})
    /\ chan' = Append(chan, [type |-> "InstallComplete", app_id |-> t.app_id,
                             ok |-> TRUE, apps |-> <<>>])

W_IsSelf(row) == row.repo_owner = SelfRepo.owner /\ row.repo_name = SelfRepo.name

\* C6 as stated: once an install of an app has succeeded with format F and
\* been recorded, every later install of that app whose release offers a
\* compatible asset of format F selects an asset of format F.
C6_StickyAfterAnySuccess ==
    \A t \in BagToSet(installs) :
        (W_Downloading(t) /\ t.prior # None /\ W_Offers(t, t.prior[1]))
            => t.install_type = t.prior

\* C6, amended: an install of an app that starts while the app's record
\* holds install_type F (set by an earlier successful install and not
\* cleared or overwritten since), and whose release offers a compatible asset
\* of format F, selects an asset of format F whatever other formats the
\* release offers; when that install succeeds and the record still exists,
\* the recorded install_type is F again.
C6_StickyWhileRecorded ==
    /\ [](\A t \in BagToSet(installs), f \in InstallType :
            (W_Downloading(t) /\ t.recorded = Some(as_str(f)) /\ W_Offers(t, f))
                => t.install_type = Some(f))
    /\ [][\A t \in BagToSet(installs), f \in InstallType :
            (W_InstallOk(t) /\ t.recorded = Some(as_str(f)) /\ W_Offers(t, f)
                /\ t.app_id \in DOMAIN apps')
                => apps'[t.app_id].install_type = Some(as_str(f))]_vars

\* An update of an app installed as AppImage, recorded, is downloading the
\* AppImage of a release that also offers a .deb.
C6_Witness ==
    \E t \in BagToSet(installs) :
        /\ W_Downloading(t)
        /\ t.prior = Some("AppImage")
        /\ t.recorded = Some(as_str("AppImage"))
        /\ W_Offers(t, "AppImage")
        /\ W_Offers(t, "Deb")
        /\ t.install_type = Some("AppImage")

\* C7 as stated: install_type is set only by a successful install of the
\* app; no other operation (add, refresh, self-registration, failed
\* install) sets it.
C7_SetOnlyByInstall ==
    [][\A id \in DOMAIN apps' :
         ( /\ apps'[id].install_type # None
           /\ (id \in DOMAIN apps => apps'[id].install_type # apps[id].install_type) )
         => \E t \in BagToSet(installs) :
               /\ W_InstallOk(t)
               /\ t.app_id = id
               /\ apps'[id].install_type = Some(as_str(t.install_type[1]))]_vars

\* C7, amended: install_type is set only by a successful install of the
\* app, or, on Autonomix's own record, by the self-registration at startup
\* when the self-install detection finds a format; add, refresh, delete and
\* failed installs never set it.
C7_SetByInstallOrSelfRegistration ==
    [][\A id \in DOMAIN apps' :
         ( /\ apps'[id].install_type # None
           /\ (id \in DOMAIN apps => apps'[id].install_type # apps[id].install_type) )
         => \/ \E t \in BagToSet(installs) :
                  /\ W_InstallOk(t)
                  /\ t.app_id = id
                  /\ apps'[id].install_type = Some(as_str(t.install_type[1]))
            \/ /\ ~running /\ running'
               /\ W_IsSelf(apps'[id])
               /\ self_seed' # None
               /\ apps'[id].install_type = Some(as_str(self_seed'[1]))]_vars

\* Both ways have happened: the added app's install_type comes from its
\* successful install, Autonomix's own from the self-registration.
C7_Witness ==
    \E id, self \in DOMAIN apps :
        /\ ~W_IsSelf(apps[id])
        /\ id \in DOMAIN last_ok
        /\ apps[id].install_type = Some(as_str(last_ok[id]))
        /\ W_IsSelf(apps[self])
        /\ self \notin DOMAIN last_ok
        /\ self_seed # None
        /\ apps[self].install_type = Some(as_str(self_seed[1]))

(***************************************************************************)
C8_Excluded(n) ==
    \E p \in { <<"w","i","n","d","o","w","s">>, <<".","e","x","e">>,
               <<".","m","s","i">>, <<"m","a","c","o","s">>,
               <<"d","a","r","w","i","n">>, <<".","d","m","g">> } : contains(n, p)

C8_Accepted(n) ==
    \/ \E p \in { <<".","d","e","b">>, <<".","r","p","m">>,
                  <<".","a","p","p","i","m","a","g","e">>, <<".","s","n","a","p">>,
                  <<".","f","l","a","t","p","a","k">> } : ends_with(n, p)
    \/ contains(n, <<"l","i","n","u","x">>)
    \/ \E p \in { <<".","t","a","r",".","g","z">>, <<".","t","a","r",".","x","z">>,
                  <<".","t","a","r",".","b","z","2">> } : ends_with(n, p)

C8_IsLinuxExclusionWins ==
    cout # None =>
        LET n == to_lowercase(cname) IN
        /\ C8_Excluded(n) => cout[1].linux = FALSE
        /\ ~C8_Excluded(n) => (cout[1].linux <=> C8_Accepted(n))

\* An excluded fragment together with a Linux-native suffix: app.exe.deb.
C8_Witness ==
    /\ cout # None
    /\ contains(to_lowercase(cname), <<".","e","x","e">>)
    /\ ends_with(to_lowercase(cname), <<".","d","e","b">>)
    /\ cout[1].linux = FALSE

(***************************************************************************)
(* C9: matches_architecture, for the hosts x86_64, aarch64 and x86: true   *)
(* when the lower-cased name contains none of x86, amd64, arm, aarch,      *)
(* i386, i686; otherwise true iff the name contains one of the host's      *)
(* accepted fragments.                                                     *)
(***************************************************************************)
C9_Indicators ==
    { <<"x","8","6">>, <<"a","m","d","6","4">>, <<"a","r","m">>,
      <<"a","a","r","c","h">>, <<"i","3","8","6">>, <<"i","6","8","6">> }

C9_AcceptedFragments(h) ==
    IF h = HostX8664
    THEN { <<"x","8","6","_","6","4">>, <<"a","m","d","6","4">>, <<"x","6","4">>,
           <<"l","i","n","u","x","6","4">> }
    ELSE IF h = HostAarch64
    THEN { <<"a","a","r","c","h","6","4">>, <<"a","r","m","6","4">> }
    ELSE { <<"i","3","8","6">>, <<"i","6","8","6">>, <<"x","8","6">>,
           <<"l","i","n","u","x","3","2">> }

C9_MatchesArchitecture ==
    (cout # None /\ host \in {HostX8664, HostAarch64, HostX86}) =>
        LET n == to_lowercase(cname) IN
        IF \A p \in C9_Indicators : ~contains(n, p)
        THEN cout[1].arch = TRUE
        ELSE cout[1].arch <=> \E p \in C9_AcceptedFragments(host) : contains(n, p)

\* A name with an indicator (arm) that an x86_64 host still accepts (linux64).
C9_Witness ==
    /\ cout # None
    /\ host = HostX8664
    /\ contains(to_lowercase(cname), <<"a","r","m">>)
    /\ contains(to_lowercase(cname), <<"l","i","n","u","x","6","4">>)
    /\ ~contains(to_lowercase(cname), <<"x","8","6">>)
    /\ ~contains(to_lowercase(cname), <<"a","m","d","6","4">>)
    /\ cout[1].arch = TRUE

(***************************************************************************)
(* C10: detect_format is an ordered, case-insensitive suffix match: the    *)
(* first rule of the table that matches the lower-cased name gives the     *)
(* format; a name no rule matches has none.                                *)
(***************************************************************************)
C10_Rules ==
    << [suffixes |-> { <<".","d","e","b">> }, format |-> "Deb"],
       [suffixes |-> { <<".","r","p","m">> }, format |-> "Rpm"],
       [suffixes |-> { <<".","a","p","p","i","m","a","g","e">> }, format |-> "AppImage"],
       [suffixes |-> { <<".","f","l","a","t","p","a","k">>,
                       <<".","f","l","a","t","p","a","k","r","e","f">> },
        format |-> "Flatpak"],
       [suffixes |-> { <<".","s","n","a","p">> }, format |-> "Snap"],
       [suffixes |-> { <<".","t","a","r",".","g","z">>, <<".","t","a","r",".","x","z">>,
                       <<".","t","a","r",".","b","z","2">> },
        format |-> "Source"],
       [suffixes |-> { <<".","b","i","n">> }, format |-> "Binary"] >>

C10_RuleMatches(k, n) ==
    \/ \E p \in C10_Rules[k].suffixes : ends_with(n, p)
    \/ C10_Rules[k].format = "Binary" /\ \A i \in 1..Len(n) : n[i] # "."

C10_DetectFormat ==
    cout # None =>
        LET n == to_lowercase(cname)
            hits == { k \in 1..Len(C10_Rules) : C10_RuleMatches(k, n) }
        IN  /\ hits = {} => cout[1].format = None
            /\ hits # {} =>
                 \E k \in hits : /\ \A j \in hits : k <= j
                                 /\ cout[1].format = Some(C10_Rules[k].format)

\* A mixed-case suffix: app.AppImage is detected as AppImage.
C10_Witness ==
    /\ cout # None
    /\ ends_with(cname, <<".","A","p","p","I","m","a","g","e">>)
    /\ cout[1].format = Some("AppImage")

(***************************************************************************)
(* The dispatcher, under SpecInstaller.                                    *)
(***************************************************************************)
\* The latest dispatcher call was kind on format.
I_Called(kind, format) ==
    /\ iop # None
    /\ iop[1].kind = kind
    /\ iop[1].format = format

I_Before == iop[1].before

\* C11: install and uninstall on the Source format always fail with the
\* unsupported-format error, for every path and name; no external tool is
\* run and no file is created, copied or removed.
C11_SourceUnsupported ==
    (iop # None /\ iop[1].format = "Source")
        => /\ ires = Some("Unsupported")
           /\ icalls = <<>>
           /\ files = I_Before

\* Source was asked to uninstall a name that matches an installed AppImage
\* and an installed binary: both are still there.
C11_Witness ==
    /\ I_Called("uninstall", "Source")
    /\ appimage_matches(I_Before, iop[1].name) # {}
    /\ iop[1].name \in I_Before.bin
    /\ ires = Some("Unsupported")

\* C12 as stated: whenever the package-tool invocation fails the repair pass
\* is attempted exactly once; the install fails iff the repair also fails;
\* at most two invocations.
C12_RepairOnAnyFailure ==
    I_Called("install", "Deb")
        => /\ Len(icalls) \in {1, 2}
           /\ icalls[1].tool = "pkexec dpkg -i"
           /\ (icalls[1].status # "success"
                 <=> (Len(icalls) = 2 /\ icalls[2].tool = "pkexec apt-get install -f -y"))
           /\ (ires # Some("Ok") <=> (Len(icalls) = 2 /\ icalls[2].status # "success"))

\* C12, amended: when the package tool runs and exits with a non-zero
\* status, the repair pass is attempted exactly once, and the install fails
\* iff the repair does not succeed; when the package tool cannot be started
\* the install fails at once without a repair pass; when it succeeds there
\* is no repair pass and the install succeeds.  At most two invocations.
C12_RepairOnNonZeroExit ==
    I_Called("install", "Deb")
        => /\ Len(icalls) \in {1, 2}
           /\ icalls[1].tool = "pkexec dpkg -i"
           /\ (icalls[1].status = "failure"
                 <=> (Len(icalls) = 2 /\ icalls[2].tool = "pkexec apt-get install -f -y"))
           /\ (icalls[1].status = "spawn_error" => ires = Some("ToolError"))
           /\ (icalls[1].status = "success" => ires = Some("Ok"))
           /\ (Len(icalls) = 2 => (ires = Some("Ok") <=> icalls[2].status = "success"))
           /\ files = I_Before

\* The package tool failed and the repair pass saved the install.
C12_Witness ==
    /\ I_Called("install", "Deb")
    /\ Len(icalls) = 2
    /\ icalls[1].status = "failure"
    /\ icalls[2].status = "success"
    /\ ires = Some("Ok")

\* C13: Rpm install and uninstall detect the modern package manager, then
\* run exactly one package tool: the modern one if detected, else the legacy
\* one; the result is that tool's; a failing modern tool is not followed by
\* the legacy tool.
C13_RpmOneTool ==
    \A kind \in {"install", "uninstall"} :
        I_Called(kind, "Rpm")
            => /\ Len(icalls) = 2
               /\ icalls[1].tool = "which dnf"
               /\ icalls[2].tool =
                     IF icalls[1].status = "success"
                     THEN (IF kind = "install" THEN "pkexec dnf install -y"
                           ELSE "pkexec dnf remove -y")
                     ELSE (IF kind = "install" THEN "pkexec rpm -i --force"
                           ELSE "pkexec rpm -e")
               /\ (ires = Some("Ok") <=> icalls[2].status = "success")
               /\ files = I_Before

\* The modern tool was detected and failed: the install failed, the legacy
\* tool was not run.
C13_Witness ==
    /\ I_Called("install", "Rpm")
    /\ icalls[1].status = "success"
    /\ icalls[2] = Call("pkexec dnf install -y", "failure")
    /\ Len(icalls) = 2
    /\ ires = Some("ToolError")

\* The AppImage files whose lower-cased name contains the lower-cased name
\* of the latest call, and their desktop entries.
I_Matches == appimage_matches(I_Before, iop[1].name)
I_MatchEntries == { desktop_name(f) : f \in I_Matches }

\* C14 as stated: AppImage uninstall removes every matching file and its
\* desktop entry, and returns an error iff no file matched, in which case
\* nothing is removed.
C14_RemovesAllMatches ==
    I_Called("uninstall", "AppImage")
        => /\ files.appimages = I_Before.appimages \ I_Matches
           /\ files.desktop = I_Before.desktop \ I_MatchEntries
           /\ files.bin = I_Before.bin
           /\ (ires # Some("Ok") <=> I_Matches = {})

\* C14, amended: AppImage uninstall removes only matching files and only
\* desktop entries derived from the files it removed.  When it returns Ok
\* some file matched and every matching file is removed; a desktop entry of
\* a removed file may stay, because a failure to remove it is ignored.
\* When no file matched it returns an error and removes nothing.  It also
\* returns an error when the directory cannot be read (nothing removed) or
\* when removing a matching file fails (the files handled before stay
\* removed, at least one matching file is left).
C14_RemovesMatchesUnlessIoFails ==
    I_Called("uninstall", "AppImage")
        => /\ files.appimages \subseteq I_Before.appimages
           /\ I_Before.appimages \ files.appimages \subseteq I_Matches
           /\ files.desktop \subseteq I_Before.desktop
           /\ I_Before.desktop \ files.desktop \subseteq
                 { desktop_name(f) : f \in I_Before.appimages \ files.appimages }
           /\ files.bin = I_Before.bin
           /\ (ires = Some("Ok")
                 => I_Matches # {} /\ files.appimages = I_Before.appimages \ I_Matches)
           /\ (I_Matches = {} => ires = Some("NotFound") /\ files = I_Before)
           /\ (ires = Some("NotFound") => files = I_Before)
           /\ (ires = Some("IoError") => files.appimages \cap I_Matches # {})
           /\ ires \in {Some("Ok"), Some("NotFound"), Some("IoError")}

\* A name given in lower case removed two AppImages, one of them stored
\* with a capital, and their desktop entries; a third AppImage stayed.
C14_Witness ==
    /\ I_Called("uninstall", "AppImage")
    /\ ires = Some("Ok")
    /\ Cardinality(I_Matches) = 2
    /\ \E f \in I_Matches : f # to_lowercase(f)
    /\ I_MatchEntries \subseteq I_Before.desktop
    /\ files.desktop \cap I_MatchEntries = {}
    /\ files.appimages # {}

(***************************************************************************)
(* Claims about the version comparator.                                    *)
(***************************************************************************)
V_Done(op) == vout # None /\ vout[1].op = op

\* A version without its one leading v or V, if it has one.
V_Unprefixed(version) ==
    IF version # <<>> /\ version[1] \in {"v", "V"} THEN Tail(version) ELSE version

\* The two versions differ at most by a leading v/V prefix and letter case.
V_Cosmetic(a, b) ==
    \/ to_lowercase(a) = to_lowercase(b)
    \/ to_lowercase(V_Unprefixed(a)) = to_lowercase(V_Unprefixed(b))

\* C15: has_update is true iff both versions are present, their normalized
\* forms differ and is_newer(latest, installed) holds; it is false when either
\* version is absent; and two versions that differ only by a leading v/V
\* prefix or by letter case are never reported as an update.
C15_CosmeticNeverUpdate ==
    V_Done("has_update") =>
        /\ vout[1].result =
               (/\ vinstalled # None
                /\ vlatest # None
                /\ normalize_version(vlatest[1]) # normalize_version(vinstalled[1])
                /\ is_newer_version(vlatest[1], vinstalled[1]))
        /\ (vinstalled = None \/ vlatest = None => ~vout[1].result)
        /\ (vinstalled # None /\ vlatest # None
            /\ V_Cosmetic(vinstalled[1], vlatest[1]) => ~vout[1].result)

V_Parses(version) == semver_parse(normalize_version(version)) # None

V_Sem(version) == semver_parse(normalize_version(version))[1]

\* a is above b in major, else in minor, else in patch, as numbers.
V_CoreGreater(a, b) ==
    \/ a.major > b.major
    \/ a.major = b.major /\ a.minor > b.minor
    \/ a.major = b.major /\ a.minor = b.minor /\ a.patch > b.patch

V_CoreEqual(a, b) == a.major = b.major /\ a.minor = b.minor /\ a.patch = b.patch

C17_TwoVersusTwoPointZero ==
    /\ V_Done("has_update")
    /\ vinstalled = Some(<<"2">>)
    /\ vlatest = Some(<<"2", ".", "0">>)
    => ~vout[1].result

(***************************************************************************)
(* Claims about the main context.                                          *)
(***************************************************************************)
\* The do_install calls in flight that satisfy P.
U_Count(P(_)) ==
    LET chosen == {w \in BagToSet(workflows) : P(w)}
    IN  BagCardinality([w \in chosen |-> CopiesIn(w, workflows)])

\* C18: for each tracked app at most one install operation is in flight at
\* any time: once the app's install trigger has fired, a second trigger for
\* the same app starts no other install workflow before the first has
\* completed.
C18_OneInstallPerApp ==
    \A id \in AppIds :
        LET triggered(w) == w.app_id = id /\ w.by = 0
        IN  U_Count(triggered) <= 1

\* C19: an update-all issues its installs one after the other: the install
\* workflow of the next app starts only when the previous one has returned,
\* so no two workflows of one update-all are in flight together; and each
\* is for an app whose record, as the update-all read it when it began, has
\* has_update true.
C19_UpdateAllSequential ==
    /\ [](\A k \in 1..Len(bulks) :
            LET mine(w) == w.by = k
            IN  /\ U_Count(mine) <= 1
                /\ (U_Count(mine) = 1) = (bulks[k].pc = "awaiting")
                /\ \A w \in BagToSet(workflows) :
                     w.by = k => has_update(w.snapshot[1].installed_version,
                                            w.snapshot[1].latest_version))
    /\ [][\A k \in 1..Len(bulks) :
            LET mine(w) == w.by = k
            IN  bulks'[k].issued > bulks[k].issued => U_Count(mine) = 0]_vars

\* An update-all is inside the install of its second app, after the
\* workflow of its first app has returned.
C19_Witness ==
    \E k \in 1..Len(bulks) :
        /\ bulks[k].issued = 2
        /\ \E w \in BagToSet(workflows) : w.by = k /\ w.pc = "installing"

\* C20: install, uninstall and download never execute on the UI thread: the
\* UI thread is never inside one of them, so the event loop can always take
\* its next event.
C20_NeverOnUiThread == ui_thread = None

(***************************************************************************)
(* Claims about the workflows of the application.                          *)
(***************************************************************************)
\* This step sends one message of the given type and takes none.
A_Sent(type) ==
    /\ Len(chan') = Len(chan) + 1
    /\ SubSeq(chan', 1, Len(chan)) = chan
    /\ chan'[Len(chan')].type = type

A_InstallEnded == BagCardinality(installs') < BagCardinality(installs)

A_UninstallEnded ==
    \E t \in BagToSet(spawned) :
        t.kind = "uninstall" /\ spawned' = spawned (-) SetToBag({t})

\* C21: every run of the install or uninstall workflow returns control:
\* whichever step fails, the step that ends the workflow sends exactly one
\* InstallComplete / UninstallComplete for its app, no other step sends
\* one, and the process with its message loop is still running after it.
C21_WorkflowsReportOnce ==
    [][running' =>
         /\ A_InstallEnded = A_Sent("InstallComplete")
         /\ A_InstallEnded =>
              \E t \in BagToSet(installs) :
                  /\ installs' = installs (-) SetToBag({t})
                  /\ chan'[Len(chan')].app_id = t.app_id
         /\ A_UninstallEnded = A_Sent("UninstallComplete")
         /\ A_UninstallEnded =>
              \E t \in BagToSet(spawned) :
                  /\ t.kind = "uninstall"
                  /\ spawned' = spawned (-) SetToBag({t})
                  /\ chan'[Len(chan')].app_id = t.app_id]_vars

\* A failed install has reported its error and the loop is running.
C21_Witness ==
    /\ running
    /\ installs = EmptyBag
    /\ chan # <<>>
    /\ chan[1].type = "InstallComplete"
    /\ ~chan[1].ok

\* C22: in every reachable store state no two records share owner and
\* repo, and an add of a pair that is already tracked leaves the store
\* unchanged.
C22_UniqueRepo ==
    /\ \A i, j \in DOMAIN apps :
         i # j => ~(apps[i].repo_owner = apps[j].repo_owner
                    /\ apps[i].repo_name = apps[j].repo_name)
    /\ \A repo \in Repos :
         is_tracked(apps, repo.owner, repo.name) =>
             add_app(apps, next_rowid, repo.owner, repo.name, repo.name) = apps

\* Both repositories are tracked, after an add and the self-registrations of
\* two starts; an add of either would be an add of a tracked pair.
C22_Witness ==
    /\ \A repo \in Repos : is_tracked(apps, repo.owner, repo.name)
    /\ starts = 2

\* C23: on every reachable store: after add_app(owner, repo, name) has
\* returned id, get_app(id) is a record with that owner and repo and no
\* installed version; after update_latest_version(id, v) and
\* update_installed(id, v, F), get_app(id) has latest_version v,
\* installed_version v and install_type F; after delete_app(id), get_app(id)
\* is the empty result.
C23_StoreOperations ==
    /\ \A repo \in Repos :
         ~is_tracked(apps, repo.owner, repo.name) =>
             LET got == get_app(add_app(apps, next_rowid, repo.owner, repo.name, repo.name),
                                next_rowid)
             IN  /\ got # None
                 /\ got[1].repo_owner = repo.owner
                 /\ got[1].repo_name = repo.name
                 /\ got[1].installed_version = None
    /\ \A id \in DOMAIN apps, v \in Tags, F \in InstallType :
         LET got == get_app(update_installed(update_latest_version(apps, id, v), id, v, F),
                            id)
         IN  /\ got # None
             /\ got[1].latest_version = Some(v)
             /\ got[1].installed_version = Some(v)
             /\ got[1].install_type = Some(F)
    /\ \A id \in DOMAIN apps : get_app(delete_app(apps, id), id) = None
    /\ \A id \in 1..MaxRowid : id \notin DOMAIN apps => get_app(apps, id) = None

\* The store holds an app after a fetch and an install wrote both versions,
\* and the row of a deleted app is gone.
C23_Witness ==
    /\ \E id \in DOMAIN apps, v \in Tags :
         /\ get_app(apps, id)[1].latest_version = Some(v)
         /\ get_app(apps, id)[1].installed_version = Some(v)
         /\ get_app(apps, id)[1].install_type = Some("AppImage")
    /\ \E id \in 1..MaxRowid : id < next_rowid /\ id \notin DOMAIN apps

(***************************************************************************)
(* Claims about the format tags.                                           *)
(***************************************************************************)
\* C24: for each of the seven formats, as_str then from_str yields the
\* format; every string that, letter case aside, is none of the seven tags
\* parses to none.
C24_TagRoundTrip ==
    tparsed # None =>
        /\ \A t \in InstallType : tstr = as_str(t) => tparsed[1] = Some(t)
        /\ (\A t \in InstallType : to_lowercase(tstr) # to_lowercase(as_str(t)))
               => tparsed[1] = None

\* The tag of Source has been parsed back to Source, and a string that is
\* no tag has been parsed.
C24_Witness ==
    /\ tparsed # None
    /\ \/ tstr = as_str("Source") /\ tparsed[1] = Some("Source")
       \/ tstr = <<"d","e","b","s">> /\ tparsed[1] = None

(***************************************************************************)
(* Claims about installs and uninstalls of one app after the other.        *)
(***************************************************************************)
\* The latest dispatcher call was a successful install, in a file-based
\* format, of an asset that is detected as that format.
I_FileInstalled ==
    /\ iop # None
    /\ iop[1].kind = "install"
    /\ iop[1].format \in {"Binary", "AppImage"}
    /\ detect_install_type(iop[1].name) = Some(iop[1].format)
    /\ ires = Some("Ok")

\* C25: after an install in Binary or AppImage format has succeeded, an
\* uninstall in that format under the app's repository name, with no call
\* in between, finds the installed file (it fails only if removing the
\* file fails) and, when it succeeds, has removed exactly the file the
\* install placed, with its desktop entry.  Any repository name can go with
\* any asset name.
C25_InstallThenUninstall ==
    [][I_FileInstalled /\ iop'[1].kind = "uninstall" /\ iop'[1].format = iop[1].format =>
         /\ ires' \in {Some("Ok"), Some("IoError")}
         /\ ires' = Some("Ok") =>
              /\ files'.bin = files.bin \ (IF iop[1].format = "Binary" THEN {iop[1].name}
                                           ELSE {})
              /\ files'.appimages =
                     files.appimages \ (IF iop[1].format = "AppImage" THEN {iop[1].name}
                                        ELSE {})
              /\ files'.desktop \subseteq files.desktop
              /\ files.desktop \ files'.desktop \subseteq
                     (IF iop[1].format = "AppImage" THEN {desktop_name(iop[1].name)}
                      ELSE {})]_vars

\* The tracked apps of this scenario: each releases its AppImage as
\* <repository name>.AppImage, so a file belongs to the app that uninstall
\* is called for exactly if that name, letter case aside, is the package
\* name.
I_BelongsTo(file, package_name) ==
    to_lowercase(desktop_name(file)) = to_lowercase(package_name)

\* C26: uninstalling one tracked app in AppImage format leaves the AppImage
\* files and the desktop entries of every other tracked app as they were,
\* whatever the repository names are.
C26_OtherAppsUntouched ==
    [][nops' = nops + 1 /\ iop'[1].kind = "uninstall" /\ iop'[1].format = "AppImage" =>
         \A f \in files.appimages :
             ~I_BelongsTo(f, iop'[1].name) =>
                 /\ f \in files'.appimages
                 /\ desktop_name(f) \in files.desktop => desktop_name(f) \in files'.desktop]_vars

(***************************************************************************)
(* Claims about the workflows and the store.                               *)
(***************************************************************************)
\* C27: whenever an install workflow reports success for an app, the store
\* then holds a record of that app with the release's tag as
\* installed_version and the installed format as install_type, whatever the
\* UI loop handled while the workflow was awaiting the network.
C27_SuccessMeansRecorded ==
    [][A_Sent("InstallComplete") /\ chan'[Len(chan')].ok =>
         \E t \in BagToSet(installs) :
             /\ installs' = installs (-) SetToBag({t})
             /\ t.app_id = chan'[Len(chan')].app_id
             /\ t.app_id \in DOMAIN apps'
             /\ apps'[t.app_id].installed_version = Some(t.release[1].tag_name)
             /\ apps'[t.app_id].install_type = Some(as_str(t.install_type[1]))]_vars

\* C28: a failing workflow leaves the store as it was: every step of an
\* install workflow other than the one that reports success, and the step
\* of an uninstall workflow that reports a failure, writes nothing to the
\* store, so the app's installed_version and install_type are the ones the
\* workflow found.
C28_FailureWritesNothing ==
    [][/\ (installs' # installs /\ ~(A_Sent("InstallComplete") /\ chan'[Len(chan')].ok))
            => apps' = apps
       /\ (A_Sent("UninstallComplete") /\ ~chan'[Len(chan')].ok) => apps' = apps]_vars

\* An uninstall has failed at the package tool and the app is still
\* recorded as installed in its format.
C28_Witness ==
    /\ chan # <<>>
    /\ chan[1].type = "UninstallComplete"
    /\ ~chan[1].ok
    /\ chan[1].app_id \in DOMAIN apps
    /\ apps[chan[1].app_id].installed_version # None
    /\ apps[chan[1].app_id].install_type # None

\* C28 as stated: when an install workflow that has read the record ends
\* with a failure and the record still exists, the record's install_type is
\* the one the workflow read at its start.
C28_FailureLeavesRecordAsFound ==
    [][\A t \in BagToSet(installs) :
         (/\ t.pc # "start"
          /\ installs' = installs (-) SetToBag({t})
          /\ A_Sent("InstallComplete")
          /\ ~chan'[Len(chan')].ok
          /\ t.app_id \in DOMAIN apps')
         => apps'[t.app_id].install_type = t.recorded]_vars

\* C29: when the only sleeping refresh sends RefreshComplete, none of the
\* per-app fetches spawned by refresh_all_apps (the ones that do not
\* notify) is still running, so every latest_version write of the refresh
\* has been applied before the reload.
C29_RefreshCompleteAfterFetches ==
    [][(A_Sent("RefreshComplete") /\ sleeping = 1)
         => \A t \in BagToSet(fetches) : t.notify]_vars

\* C30: is_newer_version is a strict order: once is_newer_version(a, b) has
\* been computed, it is false if a = b, it is not true together with
\* is_newer_version(b, a), and if it is true then for every version c with
\* is_newer_version(b, c) also is_newer_version(a, c).
C30_StrictOrder ==
    V_Done("is_newer_version") =>
        LET a == vlatest[1]
            b == vinstalled[1]
        IN  /\ a = b => ~vout[1].result
            /\ ~(vout[1].result /\ is_newer_version(b, a))
            /\ \A c \in Versions :
                 (vout[1].result /\ is_newer_version(b, c)) => is_newer_version(a, c)

====
